---- MODULE Spec2Model ----
(***************************************************************************)
(* Verification model of the MRO canonical formatter                       *)
(* (martian/syntax/formatter.go) and of the grammar actions that build the *)
(* AST it prints (the yacc grammar).                                       *)
(*                                                                         *)
(* Text is a sequence of lexemes [tok, s]: s is the exact string written   *)
(* to the printer, tok the token the lexer yields for it ("SKIP" for       *)
(* white space).  Render(text) is the emitted string.                      *)
(***************************************************************************)
EXTENDS Integers, Sequences, FiniteSets, TLC

\* ------------------------------------------------------------------ bounds
MaxMods == 2
MaxParams == 2
MaxCalls == 3
MaxIncludes == 2
MaxPooled == 2
MaxFields == 4
MaxElems == 2
MaxPairs == 2
MaxIntZeros == 6
MaxFracZeros == 9

\* --------------------------------------------------------------- constants
INDENT == "    "
NEWLINE == "\n"

VARIABLES
    cpc, callStm, modList, mmli, ret,   \* a file that is one call: parser and result
    spc, stageDec, out1, out2,          \* a file that is one stage, formatted twice
    ppc, pipeline, declared, ptext,     \* a file that is one pipeline
    apc, ast, texts, printLog,              \* a unit of several files, formatted twice
    rpc, resStage, rsrc, rtext,          \* a stage with a resource block
    vpc, vexps, vpairs, vlit, vbind, vtext,  \* a binding's value
    gpc, gtoks, gsyms, gseen            \* the parser reading a file's tokens

callVars == <<cpc, callStm, modList, mmli, ret>>
stageVars == <<spc, stageDec, out1, out2>>
pipeVars == <<ppc, pipeline, declared, ptext>>
astVars == <<apc, ast, texts, printLog>>
resVars == <<rpc, resStage, rsrc, rtext>>
valVars == <<vpc, vexps, vpairs, vlit, vbind, vtext>>
grammarVars == <<gpc, gtoks, gsyms, gseen>>
vars == <<cpc, callStm, modList, mmli, ret, spc, stageDec, out1, out2,
          ppc, pipeline, declared, ptext, apc, ast, texts, printLog,
          rpc, resStage, rsrc, rtext,
          vpc, vexps, vpairs, vlit, vbind, vtext,
          gpc, gtoks, gsyms, gseen>>
notCall == <<stageVars, pipeVars, astVars, resVars, valVars, grammarVars>>
notStage == <<callVars, pipeVars, astVars, resVars, valVars, grammarVars>>
notPipe == <<callVars, stageVars, astVars, resVars, valVars, grammarVars>>
notAst == <<callVars, stageVars, pipeVars, resVars, valVars, grammarVars>>
notRes == <<callVars, stageVars, pipeVars, astVars, valVars, grammarVars>>
notVal == <<callVars, stageVars, pipeVars, astVars, resVars, grammarVars>>
notGrammar == <<callVars, stageVars, pipeVars, astVars, resVars, valVars>>

\* ----------------------------------------------------------------- helpers
max(a, b) == IF a > b THEN a ELSE b

\* strings.Repeat(" ", n) for n >= 0
RECURSIVE Spaces(_)
Spaces(n) == IF n <= 0 THEN "" ELSE " " \o Spaces(n - 1)

Skip(s) == [tok |-> "SKIP", s |-> s]
Tok(t, s) == [tok |-> t, s |-> s]

\* The string a text stands for: the concatenation of everything written.
RECURSIVE Render(_)
Render(text) ==
    IF text = <<>> THEN ""
    ELSE IF Len(text) = 1 THEN text[1].s
    ELSE LET h == Len(text) \div 2
         IN  Render(SubSeq(text, 1, h)) \o Render(SubSeq(text, h + 1, Len(text)))

\* The token stream of a text: white space is skipped by the lexer.
IsToken(x) == x.tok # "SKIP" /\ x.s # ""
Lex(text) == SelectSeq(text, IsToken)

\* The token of an identifier-like word: the keywords the grammar's id rule
\* lists have tokens of their own.
IdTok(s) ==
    CASE s = "local" -> "LOCAL"
      [] s = "preflight" -> "PREFLIGHT"
      [] s = "volatile" -> "VOLATILE"
      [] s = "disabled" -> "DISABLED"
      [] OTHER -> "ID"

\* Byte-wise order of the identifiers a modifier binding can have
\* (Go's < on strings): disabled < local < preflight < volatile.
IdRank(s) ==
    CASE s = "disabled" -> 1
      [] s = "local" -> 2
      [] s = "preflight" -> 3
      [] s = "volatile" -> 4
      [] OTHER -> 5
StrLess(a, b) == IdRank(a) < IdRank(b)

\* ------------------------------------------------------------- expressions
KindCall == "call"
KindSelf == "self"
KindBool == "bool"

BoolExp(b) == [type |-> "ValExp", Kind |-> KindBool, Bool |-> b, Id |-> "", OutputId |-> ""]
CallRef(id, out) == [type |-> "RefExp", Kind |-> KindCall, Bool |-> FALSE, Id |-> id, OutputId |-> out]
SelfRef(id) == [type |-> "RefExp", Kind |-> KindSelf, Bool |-> FALSE, Id |-> id, OutputId |-> ""]

KindInt == "int"
KindFloat == "float"
KindString == "string"
KindMap == "map"
KindArray == "array"
KindNull == "null"

IntExp(n) == [type |-> "ValExp", Kind |-> KindInt, Int |-> n]
FloatExp(f) == [type |-> "ValExp", Kind |-> KindFloat, Float |-> f]
StringExp(s) == [type |-> "ValExp", Kind |-> KindString, Str |-> s]
NullExp == [type |-> "ValExp", Kind |-> KindNull]
ArrayExp(values) == [type |-> "ValExp", Kind |-> KindArray, Values |-> values]
\* A map[string]Exp: the entries, and the order in which a range over the
\* map visits its keys.
MapExp(entries, range) ==
    [type |-> "ValExp", Kind |-> KindMap, IsExpMap |-> TRUE, Entries |-> entries,
     Range |-> range]
\* The map[string]interface{}{} the grammar builds for `{}`
EmptyMapExp ==
    [type |-> "ValExp", Kind |-> KindMap, IsExpMap |-> FALSE, Entries |-> <<>>,
     Range |-> <<>>]

\* ------------------------------------------------------- numbers as text
Digit(n) ==
    CASE n = 0 -> "0" [] n = 1 -> "1" [] n = 2 -> "2" [] n = 3 -> "3"
      [] n = 4 -> "4" [] n = 5 -> "5" [] n = 6 -> "6" [] n = 7 -> "7"
      [] n = 8 -> "8" [] OTHER -> "9"

\* fmt's %d
RECURSIVE Itoa(_)
Itoa(n) ==
    IF n < 0 THEN "-" \o Itoa(0 - n)
    ELSE IF n < 10 THEN Digit(n)
    ELSE Itoa(n \div 10) \o Digit(n % 10)

RECURSIVE Concat(_)
Concat(chars) == IF chars = <<>> THEN "" ELSE Head(chars) \o Concat(Tail(chars))

RECURSIVE DigitChars(_)
DigitChars(ds) == IF ds = <<>> THEN <<>> ELSE <<Digit(Head(ds))>> \o DigitChars(Tail(ds))

RECURSIVE StripLeadingZeros(_)
StripLeadingZeros(ds) ==
    IF ds # <<>> /\ Head(ds) = 0 THEN StripLeadingZeros(Tail(ds)) ELSE ds

RECURSIVE StripTrailingZeros(_)
StripTrailingZeros(ds) ==
    IF ds # <<>> /\ ds[Len(ds)] = 0
    THEN StripTrailingZeros(SubSeq(ds, 1, Len(ds) - 1)) ELSE ds

\* A float64 is named by its shortest round-tripping decimal, as strconv
\* computes it: digits d without leading or trailing zeros and the position
\* dp of the decimal point, the value being 0.d * 10^dp.
Float(d, dp) == [d |-> d, dp |-> dp]

\* strconv.ParseFloat on the literal int.frac (at most 15 significant
\* digits, so that the literal's own digits are the shortest ones).
ParseFloat(lit) ==
    LET all == lit.int \o lit.frac
        nolead == StripLeadingZeros(all)
        d == StripTrailingZeros(nolead)
    IN  IF d = <<>> THEN Float(<<>>, 0)
        ELSE Float(d, Len(lit.int) - (Len(all) - Len(nolead)))

\* %e only for exponents below -4
UsesExponentSmallOnly(exp) == exp < -4

\* strconv's choice for 'g' with the shortest precision: eprec is 6, and
\* %e is used when exp < -4 || exp >= eprec
UsesExponent(exp) == exp < -4 \/ exp >= 6

\* strconv's %e: d.ddde+XX, the exponent with at least two digits
FmtE(f) ==
    LET exp == IF f.d = <<>> THEN 0 ELSE f.dp - 1
        first == IF f.d = <<>> THEN 0 ELSE f.d[1]
        abs == IF exp < 0 THEN 0 - exp ELSE exp
    IN  <<Digit(first)>>
        \o (IF Len(f.d) > 1 THEN <<".">> \o DigitChars(Tail(f.d)) ELSE <<>>)
        \o <<"e", IF exp < 0 THEN "-" ELSE "+">>
        \o (IF abs < 10 THEN <<"0", Digit(abs)>>
            ELSE <<Digit(abs \div 10), Digit(abs % 10)>>)

\* strconv's %f with prec digits after the point
FmtF(f, prec) ==
    LET at(i) == IF i >= 1 /\ i <= Len(f.d) THEN Digit(f.d[i]) ELSE "0"
    IN  (IF f.dp > 0 THEN [i \in 1..f.dp |-> at(i)] ELSE <<"0">>)
        \o (IF prec > 0 THEN <<".">> \o [i \in 1..prec |-> at(f.dp + i)] ELSE <<>>)

\* fmt's %g of a float64: the characters written
FormatG(f) ==
    IF UsesExponent(f.dp - 1) THEN FmtE(f)
    ELSE FmtF(f, max(Len(f.d) - f.dp, 0))

\* The token the lexer makes of a number's text
NumTok(chars) ==
    IF \E i \in 1..Len(chars) : chars[i] \in {".", "e"} THEN "NUM_FLOAT" ELSE "NUM_INT"

\* ------------------------------------------------------------ map keys
\* The keys used, in byte order: sort.Strings' order on them.
KeyOrder == <<"A", "a", "ab", "b">>
KeyRank(k) == CHOOSE i \in 1..Len(KeyOrder) : KeyOrder[i] = k
KeyLess(a, b) == KeyRank(a) < KeyRank(b)

RECURSIVE InsertKey(_, _)
InsertKey(sorted, k) ==
    IF sorted = <<>> THEN <<k>>
    ELSE LET last == sorted[Len(sorted)]
         IN  IF KeyLess(k, last)
             THEN Append(InsertKey(SubSeq(sorted, 1, Len(sorted) - 1), k), last)
             ELSE Append(sorted, k)

\* The keys left in the order the range over the map gave them.
SortStringsSkipped(keys) == keys

\* sort.Strings(keys)
RECURSIVE SortStrings(_)
SortStrings(keys) ==
    IF keys = <<>> THEN <<>>
    ELSE InsertKey(SortStrings(SubSeq(keys, 1, Len(keys) - 1)), keys[Len(keys)])

\* ----------------------------------------------------- value expressions
RECURSIVE ExpFormat(_, _)
RECURSIVE ElemsFormat(_, _)
RECURSIVE EntriesFormat(_, _, _)

formatSweep(e, prefix) ==
    <<Tok("SWEEP", "sweep"), Tok("LPAREN", "("), Skip(NEWLINE)>>
    \o ElemsFormat(e.Values, prefix \o INDENT)
    \o <<Skip(prefix), Tok("RPAREN", ")")>>

formatArray(e, prefix) ==
    IF Len(e.Values) = 0 THEN <<Tok("LBRACKET", "["), Tok("RBRACKET", "]")>>
    ELSE IF Len(e.Values) = 1
    THEN <<Tok("LBRACKET", "[")>> \o ExpFormat(e.Values[1], prefix)
         \o <<Tok("RBRACKET", "]")>>
    ELSE <<Tok("LBRACKET", "["), Skip(NEWLINE)>>
         \o ElemsFormat(e.Values, prefix \o INDENT)
         \o <<Skip(prefix), Tok("RBRACKET", "]")>>

formatMap(e, prefix) ==
    IF e.IsExpMap /\ Len(e.Range) > 0
    THEN <<Tok("LBRACE", "{"), Skip(NEWLINE)>>
         \o EntriesFormat(e.Entries, SortStrings(e.Range), prefix \o INDENT)
         \o <<Skip(prefix), Tok("RBRACE", "}")>>
    ELSE <<Tok("LBRACE", "{"), Tok("RBRACE", "}")>>

\* fmt's %q in place of "%s": quotes and backslashes escaped
FmtStringEscaped(s) ==
    CASE s = "\"blah\"" -> "\"\\\"blah\\\"\""
      [] s = "say \"hi\" now" -> "\"say \\\"hi\\\" now\""
      [] s = "back\\slash" -> "\"back\\\\slash\""
      [] OTHER -> "\"" \o s \o "\""

\* fmt.Fprintf(w, "\"%s\"", self.Value)
FmtString(s) == "\"" \o s \o "\""

ValExpFormat(e, prefix) ==
    CASE e.Kind = KindNull -> <<Tok("NULL", "null")>>
      [] e.Kind = KindInt -> <<Tok("NUM_INT", Itoa(e.Int))>>
      [] e.Kind = KindFloat ->
            <<Tok(NumTok(FormatG(e.Float)), Concat(FormatG(e.Float)))>>
      [] e.Kind = KindString -> <<Tok("LITSTRING", FmtString(e.Str))>>
      [] e.Kind = KindMap -> formatMap(e, prefix)
      [] e.Kind = KindArray -> formatArray(e, prefix)
      [] OTHER -> IF e.Bool THEN <<Tok("TRUE", "true")>> ELSE <<Tok("FALSE", "false")>>

RefExpFormat(e) ==
    IF e.Kind = KindCall
    THEN <<Tok(IdTok(e.Id), e.Id)>> \o
         (IF e.OutputId # "default"
          THEN <<Tok("DOT", "."), Tok(IdTok(e.OutputId), e.OutputId)>>
          ELSE <<>>)
    ELSE <<Tok("SELF", "self"), Tok("DOT", "."), Tok(IdTok(e.Id), e.Id)>>

ExpFormat(e, prefix) ==
    IF e.type = "ValExp" THEN ValExpFormat(e, prefix) ELSE RefExpFormat(e)

\* the loop of formatArray and formatSweep over the values
ElemsFormat(values, vindent) ==
    IF values = <<>> THEN <<>>
    ELSE <<Skip(vindent)>> \o ExpFormat(Head(values), vindent)
         \o <<Tok("COMMA", ","), Skip(NEWLINE)>>
         \o ElemsFormat(Tail(values), vindent)

\* the loop of formatMap over the sorted keys
EntriesFormat(entries, keys, vindent) ==
    IF keys = <<>> THEN <<>>
    ELSE <<Skip(vindent), Tok("LITSTRING", "\"" \o Head(keys) \o "\""),
           Tok("COLON", ":"), Skip(" ")>>
         \o ExpFormat(entries[Head(keys)], vindent)
         \o <<Tok("COMMA", ","), Skip(NEWLINE)>>
         \o EntriesFormat(entries, Tail(keys), vindent)

\* ---------------------------------------------------------------- bindings
BindStm(id, exp) == [Id |-> id, Exp |-> exp, Sweep |-> FALSE]
SweepStm(id, values) == [Id |-> id, Exp |-> ArrayExp(values), Sweep |-> TRUE]

\* A sweep block for every binding flagged as a sweep.
IsSweepBlockAlways(b) ==
    b.Exp.type = "ValExp" /\ b.Exp.Kind = KindArray /\ b.Sweep

\* ve.Value.([]Exp) ok && self.Sweep && len(arr) > 1
IsSweepBlock(b) ==
    b.Exp.type = "ValExp" /\ b.Exp.Kind = KindArray /\ b.Sweep /\ Len(b.Exp.Values) > 1

BindStmFormat(b, prefix, idWidth) ==
    LET idPad == IF Len(b.Id) < idWidth THEN Spaces(idWidth - Len(b.Id)) ELSE ""
    IN  <<Skip(prefix), Skip(INDENT), Tok(IdTok(b.Id), b.Id), Skip(idPad),
          Skip(" "), Tok("EQUALS", "="), Skip(" ")>>
        \o (IF IsSweepBlock(b)
            THEN formatSweep(b.Exp, prefix \o INDENT)
            ELSE ExpFormat(b.Exp, prefix \o INDENT))
        \o <<Tok("COMMA", ","), Skip(NEWLINE)>>

RECURSIVE BindIdWidth(_)
BindIdWidth(list) ==
    IF list = <<>> THEN 0
    ELSE LET w == BindIdWidth(Tail(list))
         IN  IF Len(Head(list).Id) < 30 THEN max(w, Len(Head(list).Id)) ELSE w

RECURSIVE BindListFormat(_, _, _)
BindListFormat(list, prefix, idWidth) ==
    IF list = <<>> THEN <<>>
    ELSE BindStmFormat(Head(list), prefix, idWidth)
         \o BindListFormat(Tail(list), prefix, idWidth)

BindStmsFormat(list, prefix) == BindListFormat(list, prefix, BindIdWidth(list))

\* -------------------------------------------------------------- call_stm
NilBindings == [nil |-> TRUE, List |-> <<>>]
NewBindStms(list) == [nil |-> FALSE, List |-> list]
NoModifiers == [Local |-> FALSE, Preflight |-> FALSE, Volatile |-> FALSE,
                Bindings |-> NilBindings]

\* foundMods: which of local, preflight, volatile the bound form names
FoundMods(list) ==
    [Local |-> \E i \in 1..Len(list) : list[i].Id = "local",
     Preflight |-> \E i \in 1..Len(list) : list[i].Id = "preflight",
     Volatile |-> \E i \in 1..Len(list) : list[i].Id = "volatile"]

\* ConvertUnbound without the foundMods test: every bare flag is appended.
ConvertUnboundAlways(m) ==
    LET l1 == IF m.Local
              THEN Append(m.Bindings.List, BindStm("local", BoolExp(TRUE)))
              ELSE m.Bindings.List
        l2 == IF m.Preflight
              THEN Append(l1, BindStm("preflight", BoolExp(TRUE)))
              ELSE l1
        l3 == IF m.Volatile
              THEN Append(l2, BindStm("volatile", BoolExp(TRUE)))
              ELSE l2
    IN  l3

\* "Convert unbound-form mods to bound form": the three appends
ConvertUnbound(m) ==
    LET found == FoundMods(m.Bindings.List)
        l1 == IF m.Local /\ ~found.Local
              THEN Append(m.Bindings.List, BindStm("local", BoolExp(TRUE)))
              ELSE m.Bindings.List
        l2 == IF m.Preflight /\ ~found.Preflight
              THEN Append(l1, BindStm("preflight", BoolExp(TRUE)))
              ELSE l1
        l3 == IF m.Volatile /\ ~found.Volatile
              THEN Append(l2, BindStm("volatile", BoolExp(TRUE)))
              ELSE l2
    IN  l3

\* sort.Slice by Id.  Lists shorter than 12 take Go's insertion sort:
\* each element moves left past the elements it is less than.
RECURSIVE InsertSorted(_, _)
InsertSorted(sorted, x) ==
    IF sorted = <<>> THEN <<x>>
    ELSE LET last == sorted[Len(sorted)]
         IN  IF StrLess(x.Id, last.Id)
             THEN Append(InsertSorted(SubSeq(sorted, 1, Len(sorted) - 1), x), last)
             ELSE Append(sorted, x)

\* SortSlice left out: the list stays in append order.
SortSliceSkipped(list) == list

RECURSIVE SortSlice(_)
SortSlice(list) ==
    IF list = <<>> THEN <<>>
    ELSE InsertSorted(SortSlice(SubSeq(list, 1, Len(list) - 1)), list[Len(list)])

\* The condition without the length test: a using block for every call that
\* has a bound-form list, also an empty one.
UsingNeededNonNil(m) ==
    ~m.Bindings.nil \/ m.Local \/ m.Preflight \/ m.Volatile

UsingNeeded(m) ==
    (~m.Bindings.nil /\ Len(m.Bindings.List) > 0)
        \/ m.Local \/ m.Preflight \/ m.Volatile

\* The Modifiers record CallStm.format leaves behind: it allocates, appends
\* to and sorts self.Modifiers.Bindings in place.
CallStmModifiers(m) ==
    IF UsingNeeded(m)
    THEN [m EXCEPT !.Bindings = NewBindStms(SortSlice(ConvertUnbound(m)))]
    ELSE m

\* The text CallStm.format writes.
CallStmFormat(c, prefix) ==
    <<Skip(prefix), Tok("CALL", "call"), Skip(" "), Tok(IdTok(c.DecId), c.DecId)>>
    \o (IF c.Id # c.DecId
        THEN <<Skip(" "), Tok("AS", "as"), Skip(" "), Tok(IdTok(c.Id), c.Id)>>
        ELSE <<>>)
    \o <<Tok("LPAREN", "("), Skip(NEWLINE)>>
    \o BindStmsFormat(c.Bindings, prefix)
    \o <<Skip(prefix)>>
    \o (IF UsingNeeded(c.Modifiers)
        THEN <<Tok("RPAREN", ")"), Skip(" "), Tok("USING", "using"), Skip(" "),
               Tok("LPAREN", "("), Skip(NEWLINE)>>
             \o BindStmsFormat(CallStmModifiers(c.Modifiers).Bindings.List, prefix)
             \o <<Skip(prefix)>>
        ELSE <<>>)
    \o <<Tok("RPAREN", ")"), Skip(NEWLINE)>>

\* ------------------------------------------------- grammar: a file that is
\* one top-level call_stm, and FormatSrcBytes on it
ModifierStms ==
    {BindStm(id, BoolExp(b)) : id \in {"local", "preflight", "volatile"}, b \in BOOLEAN}
        \cup {BindStm("disabled", CallRef("ADD_KEY3", "disable_example"))}

CallBindLists ==
    {<<>>,
     <<BindStm("key", SelfRef("key1")), BindStm("start", CallRef("ADD_KEY1", "default"))>>}

NoCall == [Id |-> "", DecId |-> "", Modifiers |-> NoModifiers, Bindings |-> <<>>]
NoRet == [text |-> <<>>, err |-> "nil"]

CallInit ==
    /\ cpc = "modifiers"
    /\ callStm = NoCall
    /\ modList = <<>>
    /\ mmli = FALSE
    /\ ret = NoRet

CallIdle ==
    /\ cpc = "idle"
    /\ callStm = NoCall
    /\ modList = <<>>
    /\ mmli = FALSE
    /\ ret = NoRet

\* modifiers : modifiers LOCAL | modifiers PREFLIGHT | modifiers VOLATILE
modifiers ==
    /\ cpc = "modifiers"
    /\ \E kw \in {"local", "preflight", "volatile"} :
          callStm' = [callStm EXCEPT
              !.Modifiers.Local = @ \/ kw = "local",
              !.Modifiers.Preflight = @ \/ kw = "preflight",
              !.Modifiers.Volatile = @ \/ kw = "volatile"]
    /\ UNCHANGED <<cpc, modList, mmli, ret>>
    /\ UNCHANGED notCall

\* call_stm : CALL modifiers id LPAREN bind_stm_list RPAREN
\*          | CALL modifiers id AS id LPAREN bind_stm_list RPAREN
call_stm ==
    /\ cpc = "modifiers"
    /\ \E id \in {"ADD_KEY1", "ADD_KEY4"}, binds \in CallBindLists :
          callStm' = [callStm EXCEPT !.Id = id, !.DecId = "ADD_KEY1",
                                     !.Bindings = binds]
    /\ cpc' = "call"
    /\ UNCHANGED <<modList, mmli, ret>>
    /\ UNCHANGED notCall

\* modifier_stm_list : (empty).  A second using block would replace the
\* first one's list; the sources modelled have at most one.
modifier_stm_list ==
    /\ cpc = "call"
    /\ callStm.Modifiers.Bindings.nil
    /\ modList' = <<>>
    /\ cpc' = "using"
    /\ UNCHANGED <<callStm, mmli, ret>>
    /\ UNCHANGED notCall

\* modifier_stm_list : modifier_stm_list modifier_stm
modifier_stm ==
    /\ cpc = "using"
    /\ Len(modList) < MaxMods
    /\ \E b \in ModifierStms : modList' = Append(modList, b)
    /\ UNCHANGED <<cpc, callStm, mmli, ret>>
    /\ UNCHANGED notCall

\* call_stm : call_stm USING LPAREN modifier_stm_list RPAREN
call_stm_using ==
    /\ cpc = "using"
    /\ callStm' = [callStm EXCEPT !.Modifiers.Bindings = NewBindStms(modList)]
    /\ modList' = <<>>
    /\ cpc' = "call"
    /\ UNCHANGED <<mmli, ret>>
    /\ UNCHANGED notCall

\* yaccParse stops at the first token the grammar has no rule for;
\* FormatSrcBytes then returns "", mmli.
ParseError ==
    /\ cpc \in {"modifiers", "using"}
    /\ mmli' = TRUE
    /\ ret' = [text |-> <<>>, err |-> "mmli"]
    /\ cpc' = "returned"
    /\ UNCHANGED <<callStm, modList>>
    /\ UNCHANGED notCall

\* file : call_stm, and the rest of FormatSrcBytes: the optional include
\* rewrite (which may fail) and the formatting of the AST.
FormatSrcBytes ==
    /\ cpc = "call"
    /\ \E fixIncludes \in BOOLEAN, fixFails \in BOOLEAN :
          ret' = [text |-> CallStmFormat(callStm, ""),
                  err |-> IF fixIncludes /\ fixFails THEN "fixIncludes" ELSE "nil"]
    /\ callStm' = [callStm EXCEPT !.Modifiers = CallStmModifiers(@)]
    /\ cpc' = "returned"
    /\ UNCHANGED <<modList, mmli>>
    /\ UNCHANGED notCall

CallNext ==
    \/ modifiers
    \/ call_stm
    \/ modifier_stm_list
    \/ modifier_stm
    \/ call_stm_using
    \/ ParseError
    \/ FormatSrcBytes


\* ------------------------------------------------------------- parameters
Param(mode, tname, dim, id, help, outname) ==
    [mode |-> mode, Tname |-> tname, ArrayDim |-> dim, Id |-> id,
     Help |-> help, OutName |-> outname]

\* The string values the modelled sources use in literals.
StringLits == {"", "h", "help text", "o.txt", "stages/add_key", "bin/sum mode_arg"}

\* A string literal as it is written: the value between double quotes.
Quoted(v) == [tok |-> "LITSTRING", s |-> "\"" \o v \o "\""]

\* unquote: the value of a string literal token
Unquote(lit) == CHOOSE v \in StringLits : Quoted(v) = lit

TypeTok(s) ==
    CASE s = "int" -> "INT"
      [] s = "string" -> "STRING"
      [] s = "float" -> "FLOAT"
      [] s = "map" -> "MAP"
      [] OTHER -> IdTok(s)

LangTok(s) ==
    CASE s = "py" -> "PY"
      [] s = "exec" -> "EXEC"
      [] s = "comp" -> "COMPILED"

RECURSIVE Brackets(_)
Brackets(n) ==
    IF n <= 0 THEN <<>>
    ELSE <<Tok("LBRACKET", "["), Tok("RBRACKET", "]")>> \o Brackets(n - 1)

\* strings.Repeat panics on a negative count.
ParamPanics(param, modeWidth, typeWidth) ==
    \/ modeWidth - Len(param.mode) < 0
    \/ typeWidth - Len(param.Tname) - 2 * param.ArrayDim < 0

paramFormat(param, modeWidth, typeWidth, idWidth, helpWidth) ==
    LET id == IF param.Id = "default" THEN "" ELSE param.Id
        modePad == Spaces(modeWidth - Len(param.mode))
        typePad == Spaces(typeWidth - Len(param.Tname) - 2 * param.ArrayDim)
        idPad == IF idWidth > Len(id) THEN Spaces(idWidth - Len(id)) ELSE ""
        helpPad == IF helpWidth > Len(param.Help)
                   THEN Spaces(helpWidth - Len(param.Help)) ELSE ""
    IN  <<Skip(INDENT), Tok(IF param.mode = "in" THEN "IN" ELSE "OUT", param.mode),
          Skip(modePad), Skip(" "), Tok(TypeTok(param.Tname), param.Tname)>>
        \o Brackets(param.ArrayDim)
        \o (IF id # "" THEN <<Skip(typePad), Skip(" "), Tok(IdTok(id), id)>> ELSE <<>>)
        \o (IF Len(param.Help) > 0
            THEN (IF id = "" THEN <<Skip(typePad), Skip(" ")>> ELSE <<>>)
                 \o <<Skip(idPad), Skip("  "), Quoted(param.Help)>>
            ELSE <<>>)
        \o (IF Len(param.OutName) > 0
            THEN (IF param.Help = "" THEN <<Skip(idPad), Skip("  ")>> ELSE <<>>)
                 \o <<Skip(helpPad), Skip("  "), Quoted(param.OutName)>>
            ELSE <<>>)
        \o <<Tok("COMMA", ","), Skip(NEWLINE)>>

\* InParams.getWidths / OutParams.getWidths
RECURSIVE getWidths(_)
getWidths(list) ==
    IF list = <<>> THEN [mode |-> 0, type |-> 0, id |-> 0, help |-> 0]
    ELSE LET w == getWidths(SubSeq(list, 1, Len(list) - 1))
             param == list[Len(list)]
         IN  [mode |-> max(w.mode, Len(param.mode)),
              type |-> max(w.type, Len(param.Tname) + 2 * param.ArrayDim),
              id |-> IF Len(param.Id) < 35 THEN max(w.id, Len(param.Id)) ELSE w.id,
              help |-> IF Len(param.Help) < 25 THEN max(w.help, Len(param.Help))
                       ELSE w.help]

RECURSIVE measureParamsWidths(_)
measureParamsWidths(paramsList) ==
    IF paramsList = <<>> THEN [mode |-> 0, type |-> 0, id |-> 0, help |-> 0]
    ELSE LET w == measureParamsWidths(SubSeq(paramsList, 1, Len(paramsList) - 1))
             p == getWidths(paramsList[Len(paramsList)])
         IN  [mode |-> max(w.mode, p.mode), type |-> max(w.type, p.type),
              id |-> max(w.id, p.id), help |-> max(w.help, p.help)]

\* InParams.format / OutParams.format
RECURSIVE ParamsFormat(_, _)
ParamsFormat(list, w) ==
    IF list = <<>> THEN <<>>
    ELSE paramFormat(Head(list), w.mode, w.type, w.id, w.help)
         \o ParamsFormat(Tail(list), w)

ParamsPanic(list, w) ==
    \E i \in 1..Len(list) : ParamPanics(list[i], w.mode, w.type)

\* ------------------------------------------------------------------ stage
\* strings.Split(s, " ") and strings.Join(words, " ") on the commands used
SplitSpace(s) ==
    CASE s = "bin/sum mode_arg" -> <<"bin/sum", "mode_arg">>
      [] OTHER -> <<s>>

RECURSIVE Join(_)
Join(words) ==
    IF Len(words) = 1 THEN words[1]
    ELSE words[1] \o " " \o Join(Tail(words))

SrcParam(lang, cmd) ==
    [Lang |-> lang, Path |-> Head(SplitSpace(cmd)), Args |-> Tail(SplitSpace(cmd))]

SrcPanics(src, modeWidth, typeWidth) ==
    \/ typeWidth - Len(src.Lang) < 0
    \/ modeWidth - Len("src") < 0

SrcParamFormat(src, modeWidth, typeWidth) ==
    LET langPad == Spaces(typeWidth - Len(src.Lang))
        modePad == Spaces(modeWidth - Len("src"))
    IN  <<Skip(INDENT), Tok("SRC", "src"), Skip(modePad), Skip(" "),
          Tok(LangTok(src.Lang), src.Lang), Skip(langPad), Skip(" "),
          Quoted(Join(<<src.Path>> \o src.Args)), Tok("COMMA", ","), Skip(NEWLINE)>>

\* -------------------------------------------------------------- resources
ResourceFields == <<"mem_gb", "special", "threads", "volatile">>

\* &Resources{}: no location marker set, every value zero
NoResources ==
    [nil |-> FALSE,
     ThreadNode |-> FALSE, MemNode |-> FALSE, SpecialNode |-> FALSE,
     VolatileNode |-> FALSE,
     Threads |-> 0, MemGB |-> 0, Special |-> "", StrictVolatile |-> FALSE]
NilResources == [NoResources EXCEPT !.nil = TRUE]

\* A field counted as present when its value is not the zero value.
FieldPresentByValue(r, field) ==
    CASE field = "mem_gb" -> r.MemGB # 0
      [] field = "special" -> r.Special # ""
      [] field = "threads" -> r.Threads # 0
      [] OTHER -> r.StrictVolatile

\* self.MemNode != nil, self.SpecialNode != nil, self.ThreadNode != nil,
\* self.VolatileNode != nil
FieldPresent(r, field) ==
    CASE field = "mem_gb" -> r.MemNode
      [] field = "special" -> r.SpecialNode
      [] field = "threads" -> r.ThreadNode
      [] OTHER -> r.VolatileNode

\* memPad with the padding of the widest block, whatever fields are present
MemPadWidest(r) == "  "

\* memPad and threadPad of Resources.format: the padding after mem_gb, and
\* after special and threads, by the fields present.
MemPad(r) ==
    IF r.VolatileNode THEN "  "
    ELSE IF r.SpecialNode \/ r.ThreadNode THEN " " ELSE ""

ThreadPad(r) == IF r.VolatileNode THEN " " ELSE ""

ResourcesFormat(r) ==
    LET memPad == MemPad(r)
        threadPad == ThreadPad(r)
    IN  <<Tok("RPAREN", ")"), Skip(" "), Tok("USING", "using"), Skip(" "),
          Tok("LPAREN", "("), Skip(NEWLINE)>>
        \o (IF FieldPresent(r, "mem_gb")
            THEN <<Skip(INDENT), Tok("MEM_GB", "mem_gb"), Skip(memPad), Skip(" "),
                   Tok("EQUALS", "="), Skip(" "), Tok("NUM_INT", Itoa(r.MemGB)),
                   Tok("COMMA", ","), Skip(NEWLINE)>>
            ELSE <<>>)
        \o (IF FieldPresent(r, "special")
            THEN <<Skip(INDENT), Tok("SPECIAL", "special"), Skip(threadPad), Skip(" "),
                   Tok("EQUALS", "="), Skip(" "),
                   Tok("LITSTRING", "\"" \o r.Special \o "\""),
                   Tok("COMMA", ","), Skip(NEWLINE)>>
            ELSE <<>>)
        \o (IF FieldPresent(r, "threads")
            THEN <<Skip(INDENT), Tok("THREADS", "threads"), Skip(threadPad), Skip(" "),
                   Tok("EQUALS", "="), Skip(" "), Tok("NUM_INT", Itoa(r.Threads)),
                   Tok("COMMA", ","), Skip(NEWLINE)>>
            ELSE <<>>)
        \o (IF FieldPresent(r, "volatile")
            THEN <<Skip(INDENT), Tok("VOLATILE", "volatile"), Skip(" "),
                   Tok("EQUALS", "="), Skip(" "), Tok("STRICT", "strict"),
                   Tok("COMMA", ","), Skip(NEWLINE)>>
            ELSE <<>>)

NilRetainParams == [nil |-> TRUE, Params |-> <<>>]

RECURSIVE RetainIdsFormat(_)
RetainIdsFormat(params) ==
    IF params = <<>> THEN <<>>
    ELSE <<Skip(INDENT), Tok(IdTok(Head(params)), Head(params)), Tok("COMMA", ","),
           Skip(NEWLINE)>> \o RetainIdsFormat(Tail(params))

RetainParamsFormat(retain) ==
    <<Tok("RPAREN", ")"), Skip(" "), Tok("RETAIN", "retain"), Skip(" "),
      Tok("LPAREN", "("), Skip(NEWLINE)>>
    \o RetainIdsFormat(retain.Params)

NoSrc == [Lang |-> "", Path |-> "", Args |-> <<>>]
NoStage == [Id |-> "", InParams |-> <<>>, OutParams |-> <<>>, Src |-> NoSrc,
            ChunkIns |-> <<>>, ChunkOuts |-> <<>>, Split |-> FALSE,
            Resources |-> NilResources, Retain |-> NilRetainParams]

\* Stage.format with the primary widths measured without the split block.
StageWidthsPrimaryOnly(st) ==
    LET m == measureParamsWidths(<<st.InParams, st.OutParams>>)
        w == [m EXCEPT !.mode = max(m.mode, Len("src"))]
        n == measureParamsWidths(<<st.ChunkIns, st.ChunkOuts>>)
        c == IF w.id > 30 \/ w.help > 20
             THEN [w EXCEPT !.id = n.id, !.help = n.help]
             ELSE w
    IN  [w |-> w, c |-> c]

\* The column widths Stage.format passes on: to the primary parameters and
\* the src line (w), and to the split block (c).
StageWidths(st) ==
    LET m == measureParamsWidths(<<st.InParams, st.OutParams, st.ChunkIns, st.ChunkOuts>>)
        w == [m EXCEPT !.mode = max(m.mode, Len("src"))]
        n == measureParamsWidths(<<st.ChunkIns, st.ChunkOuts>>)
        c == IF w.id > 30 \/ w.help > 20
             THEN [w EXCEPT !.id = n.id, !.help = n.help]
             ELSE w
    IN  [w |-> w, c |-> c]

\* Whether Stage.format aborts in strings.Repeat.
StagePanics(st) ==
    LET sw == StageWidths(st)
    IN  \/ ParamsPanic(st.InParams, sw.w)
        \/ ParamsPanic(st.OutParams, sw.w)
        \/ SrcPanics(st.Src, sw.w.mode, sw.w.type)
        \/ st.Split /\ (ParamsPanic(st.ChunkIns, sw.c) \/ ParamsPanic(st.ChunkOuts, sw.c))

StageFormat(st) ==
    LET sw == StageWidths(st)
    IN  <<Tok("STAGE", "stage"), Skip(" "), Tok(IdTok(st.Id), st.Id),
          Tok("LPAREN", "("), Skip(NEWLINE)>>
        \o ParamsFormat(st.InParams, sw.w)
        \o ParamsFormat(st.OutParams, sw.w)
        \o SrcParamFormat(st.Src, sw.w.mode, sw.w.type)
        \o (IF st.Split
            THEN <<Tok("RPAREN", ")"), Skip(" "), Tok("SPLIT", "split"), Skip(" "),
                   Tok("LPAREN", "("), Skip(NEWLINE)>>
                 \o ParamsFormat(st.ChunkIns, sw.c)
                 \o ParamsFormat(st.ChunkOuts, sw.c)
            ELSE <<>>)
        \o (IF ~st.Resources.nil THEN ResourcesFormat(st.Resources) ELSE <<>>)
        \o (IF ~st.Retain.nil THEN RetainParamsFormat(st.Retain) ELSE <<>>)
        \o <<Tok("RPAREN", ")"), Skip(NEWLINE)>>

\* ------------------------------------------ grammar: parsing a stage's text
RECURSIVE arr_list(_, _)
arr_list(t, j) ==
    IF t[j].tok = "LBRACKET" THEN 1 + arr_list(t, j + 2) ELSE 0

\* in_param : IN type arr_list id help COMMA | IN type arr_list id COMMA
in_param(t, i) ==
    LET dim == arr_list(t, i + 2)
        k == i + 2 + 2 * dim
        hasHelp == t[k + 1].tok = "LITSTRING"
    IN  [param |-> Param("in", t[i + 1].s, dim, t[k].s,
                         IF hasHelp THEN Unquote(t[k + 1]) ELSE "", ""),
         next |-> IF hasHelp THEN k + 3 ELSE k + 2]

\* out_param : OUT type arr_list [id] [help [outname]] COMMA
out_param(t, i) ==
    LET dim == arr_list(t, i + 2)
        k == i + 2 + 2 * dim
        hasId == t[k].tok \notin {"LITSTRING", "COMMA"}
        h == IF hasId THEN k + 1 ELSE k
        hasHelp == t[h].tok = "LITSTRING"
        hasOut == hasHelp /\ t[h + 1].tok = "LITSTRING"
    IN  [param |-> Param("out", t[i + 1].s, dim,
                         IF hasId THEN t[k].s ELSE "default",
                         IF hasHelp THEN Unquote(t[h]) ELSE "",
                         IF hasOut THEN Unquote(t[h + 1]) ELSE ""),
         next |-> h + (IF hasHelp THEN 1 ELSE 0) + (IF hasOut THEN 1 ELSE 0) + 1]

\* in_param_list / out_param_list from token i on
RECURSIVE param_list(_, _, _)
param_list(t, i, kind) ==
    IF i > Len(t) \/ t[i].tok # kind THEN [List |-> <<>>, next |-> i]
    ELSE LET one == IF kind = "IN" THEN in_param(t, i) ELSE out_param(t, i)
             rest == param_list(t, one.next, kind)
         IN  [List |-> <<one.param>> \o rest.List, next |-> rest.next]

\* stage : STAGE id LPAREN in_param_list out_param_list src_stm RPAREN
\*         split_param_list resources stage_retain, for a text with neither
\*         a using nor a retain block
stage(t) ==
    LET ins == param_list(t, 4, "IN")
        outs == param_list(t, ins.next, "OUT")
        s0 == outs.next
        src == SrcParam(t[s0 + 1].s, Unquote(t[s0 + 2]))
        r == s0 + 4
        split == r + 1 <= Len(t) /\ t[r + 1].tok = "SPLIT"
        l == IF split /\ t[r + 2].tok = "USING" THEN r + 4 ELSE r + 3
        cins == IF split THEN param_list(t, l, "IN") ELSE [List |-> <<>>, next |-> l]
        couts == IF split THEN param_list(t, cins.next, "OUT")
                 ELSE [List |-> <<>>, next |-> l]
    IN  [Id |-> t[2].s, InParams |-> ins.List, OutParams |-> outs.List, Src |-> src,
         ChunkIns |-> cins.List, ChunkOuts |-> couts.List, Split |-> split,
         Resources |-> NilResources, Retain |-> NilRetainParams]

\* --------------------------- grammar: a file that is one stage declaration
InParamSet ==
    {Param("in", "int", 0, "x", "", ""),
     Param("in", "float", 1, "values", "help text", ""),
     Param("in", "map", 0, "key", "h", "")}

OutParamSet ==
    {Param("out", "int", 0, "x", "", ""),
     Param("out", "float", 0, "default", "h", ""),
     Param("out", "int", 0, "x", "", "o.txt"),
     Param("out", "string", 1, "values", "help text", "o.txt")}

StageInit ==
    /\ spc = "in"
    /\ stageDec = NoStage
    /\ out1 = <<>>
    /\ out2 = <<>>

StageIdle ==
    /\ spc = "idle"
    /\ stageDec = NoStage
    /\ out1 = <<>>
    /\ out2 = <<>>

\* in_param_list : in_param_list in_param
in_param_list ==
    /\ spc = "in"
    /\ Len(stageDec.InParams) < MaxParams
    /\ \E param \in InParamSet :
          stageDec' = [stageDec EXCEPT !.InParams = Append(@, param)]
    /\ UNCHANGED <<spc, out1, out2>>
    /\ UNCHANGED notStage

\* out_param_list : out_param_list out_param
out_param_list ==
    /\ spc \in {"in", "out"}
    /\ Len(stageDec.OutParams) < MaxParams
    /\ \E param \in OutParamSet :
          stageDec' = [stageDec EXCEPT !.OutParams = Append(@, param)]
    /\ spc' = "out"
    /\ UNCHANGED <<out1, out2>>
    /\ UNCHANGED notStage

\* src_stm : SRC src_lang LITSTRING COMMA
src_stm ==
    /\ spc \in {"in", "out"}
    /\ \E lang \in {"py", "comp"}, cmd \in {"stages/add_key", "bin/sum mode_arg"} :
          stageDec' = [stageDec EXCEPT !.Id = "SUM", !.Src = SrcParam(lang, cmd)]
    /\ spc' = "src"
    /\ UNCHANGED <<out1, out2>>
    /\ UNCHANGED notStage

\* split_param_list : SPLIT LPAREN in_param_list out_param_list RPAREN
split_param_list ==
    /\ spc = "src"
    /\ \E cins \in {<<>>, <<Param("in", "float", 0, "value", "", "")>>},
          couts \in {<<>>, <<Param("out", "float", 0, "square", "h", "")>>} :
          stageDec' = [stageDec EXCEPT !.Split = TRUE, !.ChunkIns = cins,
                                       !.ChunkOuts = couts]
    /\ spc' = "split"
    /\ UNCHANGED <<out1, out2>>
    /\ UNCHANGED notStage

\* Format(src): the parsed stage is formatted, unless a rendering step
\* aborts.
FormatSource ==
    /\ spc \in {"src", "split"}
    /\ IF StagePanics(stageDec)
       THEN spc' = "panic" /\ out1' = out1
       ELSE spc' = "formatted" /\ out1' = StageFormat(stageDec)
    /\ UNCHANGED <<stageDec, out2>>
    /\ UNCHANGED notStage

\* Format(formatted): the text just produced is parsed and formatted again.
FormatFormatted ==
    /\ spc = "formatted"
    /\ stageDec' = stage(Lex(out1))
    /\ IF StagePanics(stageDec')
       THEN spc' = "panic" /\ out2' = out2
       ELSE spc' = "reformatted" /\ out2' = StageFormat(stageDec')
    /\ out1' = out1
    /\ UNCHANGED notStage

StageNext ==
    \/ in_param_list
    \/ out_param_list
    \/ src_stm
    \/ split_param_list
    \/ FormatSource
    \/ FormatFormatted

\* ------------- grammar: a stage whose parameters reach the column limits
\* Identifiers and help texts on both sides of the limits of getWidths
\* (35 and 25) and of Stage.format (30 and 20).
Id32 == "identifier_of_thirty_one_chars_x"
Id35 == "identifier_of_thirty_five_chars_xyz"
Help21 == "a help text of 21 chr"
Help25 == "a help text with 25 chars"

WideInParamSet ==
    {Param("in", "int", 0, "x", "h", ""),
     Param("in", "int", 0, Id32, "", ""),
     Param("in", "int", 0, Id35, "h", ""),
     Param("in", "float", 1, "values", Help25, ""),
     Param("in", "int", 0, "key", Help21, "")}

WideOutParamSet ==
    {Param("out", "float", 0, "default", "h", ""),
     Param("out", "int", 0, "sum", "help", "o.txt"),
     Param("out", "int", 0, "total", Help25, "o.txt")}

ChunkInsSet ==
    {<<>>, <<Param("in", "float", 0, "value", "h", "")>>,
     <<Param("in", "float", 0, "chunk_identifier", "h", "")>>}

ChunkOutsSet ==
    {<<>>, <<Param("out", "float", 0, "square", "chunk help", "o.txt")>>}

ColumnsInit ==
    /\ spc = "in"
    /\ stageDec = NoStage
    /\ out1 = <<>>
    /\ out2 = <<>>

\* in_param_list : in_param_list in_param
WideInParams ==
    /\ spc = "in"
    /\ Len(stageDec.InParams) < MaxParams
    /\ \E param \in WideInParamSet :
          stageDec' = [stageDec EXCEPT !.InParams = Append(@, param)]
    /\ UNCHANGED <<spc, out1, out2>>
    /\ UNCHANGED notStage

\* out_param_list : out_param_list out_param
WideOutParams ==
    /\ spc \in {"in", "out"}
    /\ Len(stageDec.OutParams) < MaxParams
    /\ \E param \in WideOutParamSet :
          stageDec' = [stageDec EXCEPT !.OutParams = Append(@, param)]
    /\ spc' = "out"
    /\ UNCHANGED <<out1, out2>>
    /\ UNCHANGED notStage

\* src_stm : SRC src_lang LITSTRING COMMA
WideSrc ==
    /\ spc \in {"in", "out"}
    /\ stageDec' = [stageDec EXCEPT !.Id = "SUM", !.Src = SrcParam("py", "stages/add_key")]
    /\ spc' = "src"
    /\ UNCHANGED <<out1, out2>>
    /\ UNCHANGED notStage

\* split_param_list : SPLIT LPAREN in_param_list out_param_list RPAREN
WideSplit ==
    /\ spc = "src"
    /\ \E cins \in ChunkInsSet, couts \in ChunkOutsSet :
          stageDec' = [stageDec EXCEPT !.Split = TRUE, !.ChunkIns = cins,
                                       !.ChunkOuts = couts]
    /\ spc' = "split"
    /\ UNCHANGED <<out1, out2>>
    /\ UNCHANGED notStage

ColumnsNext ==
    \/ WideInParams
    \/ WideOutParams
    \/ WideSrc
    \/ WideSplit
    \/ FormatSource

\* ------------------- grammar: a stage declaration with a resource block
ResourceValues ==
    [mem_gb |-> {0, 2}, threads |-> {0, 4}, special |-> {"\"himem\""},
     volatile |-> {TRUE}]

ResInit ==
    /\ rpc = "stage"
    /\ resStage = [NoStage EXCEPT !.Id = "SUM",
                       !.InParams = <<Param("in", "int", 0, "x", "", "")>>,
                       !.OutParams = <<Param("out", "int", 0, "sum", "", "")>>,
                       !.Src = SrcParam("py", "stages/add_key")]
    /\ rsrc = <<>>
    /\ rtext = <<>>

ResIdle ==
    /\ rpc = "idle"
    /\ resStage = NoStage
    /\ rsrc = <<>>
    /\ rtext = <<>>

\* resources : (empty), then stage_retain
resources_none ==
    /\ rpc = "stage"
    /\ rpc' = "parsed"
    /\ UNCHANGED <<resStage, rsrc, rtext>>
    /\ UNCHANGED notRes

\* resource_list : (empty), after USING LPAREN
resource_list ==
    /\ rpc = "stage"
    /\ resStage' = [resStage EXCEPT !.Resources = NoResources]
    /\ rpc' = "using"
    /\ UNCHANGED <<rsrc, rtext>>
    /\ UNCHANGED notRes

\* resource_list : resource_list THREADS EQUALS NUM_INT COMMA
\*               | resource_list MEM_GB EQUALS NUM_INT COMMA
\*               | resource_list SPECIAL EQUALS LITSTRING COMMA
\*               | resource_list VOLATILE EQUALS STRICT COMMA
resource_field ==
    /\ rpc = "using"
    /\ Len(rsrc) < MaxFields
    /\ \E field \in DOMAIN ResourceValues :
          \E v \in ResourceValues[field] :
              /\ resStage' =
                    CASE field = "threads" ->
                           [resStage EXCEPT !.Resources.ThreadNode = TRUE,
                                            !.Resources.Threads = v]
                      [] field = "mem_gb" ->
                           [resStage EXCEPT !.Resources.MemNode = TRUE,
                                            !.Resources.MemGB = v]
                      [] field = "special" ->
                           [resStage EXCEPT !.Resources.SpecialNode = TRUE,
                                            !.Resources.Special = v]
                      [] OTHER ->
                           [resStage EXCEPT !.Resources.VolatileNode = TRUE,
                                            !.Resources.StrictVolatile = v]
              /\ rsrc' = Append(rsrc, field)
    /\ UNCHANGED <<rpc, rtext>>
    /\ UNCHANGED notRes

\* resources : USING LPAREN resource_list RPAREN, then
\* stage_retain : (empty) | RETAIN LPAREN stage_retain_list RPAREN
stage_retain ==
    /\ rpc = "using"
    /\ \E retain \in {NilRetainParams, [nil |-> FALSE, Params |-> <<"sum">>]} :
          resStage' = [resStage EXCEPT !.Retain = retain]
    /\ rpc' = "parsed"
    /\ UNCHANGED <<rsrc, rtext>>
    /\ UNCHANGED notRes

\* Stage.format on the parsed stage
FormatResources ==
    /\ rpc = "parsed"
    /\ ~StagePanics(resStage)
    /\ rtext' = StageFormat(resStage)
    /\ rpc' = "formatted"
    /\ UNCHANGED <<resStage, rsrc>>
    /\ UNCHANGED notRes

ResNext ==
    \/ resources_none
    \/ resource_list
    \/ resource_field
    \/ stage_retain
    \/ FormatResources

\* --------------------------------------------------------------- pipeline
Ids(calls) == {calls[i].Id : i \in 1..Len(calls)}
CallById(calls, id) == calls[CHOOSE i \in 1..Len(calls) : calls[i].Id = id]
IndexIn(seq, x) == CHOOSE i \in 1..Len(seq) : seq[i] = x

\* The calls whose outputs a call's argument bindings refer to.
CallDeps(call) ==
    {call.Bindings[i].Exp.Id : i \in {j \in 1..Len(call.Bindings) :
        call.Bindings[j].Exp.type = "RefExp" /\ call.Bindings[j].Exp.Kind = KindCall}}

\* The calls a call depends on through a chain of at most n references.
RECURSIVE TransDeps(_, _, _)
TransDeps(calls, id, n) ==
    IF n = 0 THEN {}
    ELSE LET d == CallDeps(CallById(calls, id)) \cap Ids(calls)
         IN  d \cup UNION {TransDeps(calls, x, n - 1) : x \in d}

\* Every reference names a call of the body and no call depends on itself.
WellFormed(calls) ==
    /\ \A i \in 1..Len(calls) : CallDeps(calls[i]) \subseteq Ids(calls)
    /\ \A id \in Ids(calls) : id \notin TransDeps(calls, id, Len(calls))

\* topoSort: the stable topological order.  The first call, in the order
\* so far, whose dependencies are all placed is placed next.
RECURSIVE TopoPlace(_, _)
TopoPlace(remaining, placed) ==
    IF remaining = <<>> THEN placed
    ELSE LET ready == {i \in 1..Len(remaining) :
                          CallDeps(remaining[i]) \subseteq Ids(placed)}
             i == CHOOSE k \in ready : \A l \in ready : k <= l
         IN  TopoPlace(SubSeq(remaining, 1, i - 1)
                           \o SubSeq(remaining, i + 1, Len(remaining)),
                       Append(placed, remaining[i]))

topoSort(calls) == TopoPlace(calls, <<>>)

\* self.Calls left as parsed: the sort is not run.
SortedCallsSkipped(calls) == calls

\* A depth-first order: each call's pending dependencies are emitted right
\* before it, in source order.
RECURSIVE VisitAll(_, _, _, _)
VisitAll(calls, order, want, done) ==
    IF order = <<>> THEN done
    ELSE LET c == Head(order)
         IN  IF c.Id \in want /\ c.Id \notin Ids(done)
             THEN LET before == VisitAll(calls, calls, CallDeps(c), done)
                  IN  VisitAll(calls, Tail(order), want, Append(before, c))
             ELSE VisitAll(calls, Tail(order), want, done)

SortedCallsDepthFirst(calls) == VisitAll(calls, calls, Ids(calls), <<>>)

\* A topological order that is not stable: the calls that refer to no other
\* call first, then the others.
SortedCallsRootsFirst(calls) ==
    topoSort(SelectSeq(calls, LAMBDA c : CallDeps(c) = {})
             \o SelectSeq(calls, LAMBDA c : CallDeps(c) # {}))

\* self.Calls after self.topoSort() in Pipeline.format
SortedCalls(calls) == topoSort(calls)

RECURSIVE CallsFormat(_)
CallsFormat(calls) ==
    IF calls = <<>> THEN <<>>
    ELSE <<Skip(NEWLINE)>> \o CallStmFormat(Head(calls), INDENT)
         \o CallsFormat(Tail(calls))

ReturnStmFormat(r) ==
    <<Skip(INDENT), Tok("RETURN", "return"), Skip(" "), Tok("LPAREN", "("),
      Skip(NEWLINE)>>
    \o BindStmsFormat(r, INDENT)
    \o <<Skip(INDENT), Tok("RPAREN", ")"), Skip(NEWLINE)>>

RECURSIVE RefsFormat(_)
RefsFormat(refs) ==
    IF refs = <<>> THEN <<>>
    ELSE <<Skip(INDENT), Skip(INDENT)>> \o RefExpFormat(Head(refs))
         \o <<Tok("COMMA", ","), Skip(NEWLINE)>> \o RefsFormat(Tail(refs))

PipelineRetainsFormat(retain) ==
    <<Skip(INDENT), Tok("RETAIN", "retain"), Skip(" "), Tok("LPAREN", "("),
      Skip(NEWLINE)>>
    \o RefsFormat(retain.Refs)
    \o <<Skip(INDENT), Tok("RPAREN", ")"), Skip(NEWLINE)>>

PipelineFormat(pl) ==
    LET w == measureParamsWidths(<<pl.InParams, pl.OutParams>>)
    IN  <<Tok("PIPELINE", "pipeline"), Skip(" "), Tok(IdTok(pl.Id), pl.Id),
          Tok("LPAREN", "("), Skip(NEWLINE)>>
        \o ParamsFormat(pl.InParams, w)
        \o ParamsFormat(pl.OutParams, w)
        \o <<Tok("RPAREN", ")"), Skip(NEWLINE), Tok("LBRACE", "{")>>
        \o CallsFormat(SortedCalls(pl.Calls))
        \o <<Skip(NEWLINE)>>
        \o ReturnStmFormat(pl.Ret)
        \o (IF ~pl.Retain.nil
            THEN <<Skip(NEWLINE)>> \o PipelineRetainsFormat(pl.Retain)
            ELSE <<>>)
        \o <<Tok("RBRACE", "}"), Skip(NEWLINE)>>

\* ------------------------- grammar: a file that is one pipeline declaration
StageIds == <<"STAGE_1", "STAGE_2", "STAGE_3", "STAGE_4", "STAGE_5", "STAGE_6">>
BindIds == <<"in2", "in3", "in4", "in5", "in6", "in7">>

\* bind_stm_list of a call: in1 = self.input, then one binding per call
\* referred to
RECURSIVE RefBinds(_, _, _)
RefBinds(refs, j, k) ==
    IF j > Len(StageIds) THEN <<>>
    ELSE IF StageIds[j] \in refs
         THEN <<BindStm(BindIds[k], CallRef(StageIds[j], "output"))>>
              \o RefBinds(refs, j + 1, k + 1)
         ELSE RefBinds(refs, j + 1, k)

PipeCall(decId, id, refs) ==
    [Id |-> id, DecId |-> decId, Modifiers |-> NoModifiers,
     Bindings |-> <<BindStm("in1", SelfRef("input"))>> \o RefBinds(refs, 1, 1)]

NilRetain == [nil |-> TRUE, Refs |-> <<>>]
NoPipeline ==
    [Id |-> "", InParams |-> <<>>, OutParams |-> <<>>, Calls |-> <<>>,
     Ret |-> <<>>, Retain |-> NilRetain]

PipeInit ==
    /\ ppc = "body"
    /\ pipeline = [NoPipeline EXCEPT
          !.Id = "PIPELINE",
          !.InParams = <<Param("in", "int", 0, "input", "", "")>>,
          !.OutParams = <<Param("out", "int", 0, "output1", "", "")>>]
    /\ declared = <<>>
    /\ ptext = <<>>

PipeIdle ==
    /\ ppc = "idle"
    /\ pipeline = NoPipeline
    /\ declared = <<>>
    /\ ptext = <<>>

\* call_stm_list : call_stm_list call_stm | call_stm
call_stm_list ==
    /\ ppc = "body"
    /\ Len(pipeline.Calls) < MaxCalls
    /\ \E refs \in SUBSET {StageIds[j] : j \in 1..MaxCalls} :
          LET id == StageIds[Len(pipeline.Calls) + 1]
          IN  /\ pipeline' = [pipeline EXCEPT
                     !.Calls = Append(@, PipeCall("STAGE", id, refs))]
              /\ declared' = Append(declared, id)
    /\ UNCHANGED <<ppc, ptext>>
    /\ UNCHANGED notPipe

\* return_stm : RETURN LPAREN bind_stm_list RPAREN, then pipeline_retain
return_stm ==
    /\ ppc = "body"
    /\ Len(pipeline.Calls) >= 1
    /\ \E retain \in {NilRetain,
                      [nil |-> FALSE, Refs |-> <<CallRef(declared[1], "default")>>]} :
          pipeline' = [pipeline EXCEPT
              !.Ret = <<BindStm("output1",
                                CallRef(declared[Len(declared)], "output"))>>,
              !.Retain = retain]
    /\ ppc' = "parsed"
    /\ UNCHANGED <<declared, ptext>>
    /\ UNCHANGED notPipe

\* Pipeline.format on the parsed pipeline; topoSort reorders self.Calls.
FormatPipeline ==
    /\ ppc = "parsed"
    /\ WellFormed(pipeline.Calls)
    /\ ptext' = PipelineFormat(pipeline)
    /\ pipeline' = [pipeline EXCEPT !.Calls = SortedCalls(@)]
    /\ ppc' = "formatted"
    /\ UNCHANGED declared
    /\ UNCHANGED notPipe

PipeNext ==
    \/ call_stm_list
    \/ return_stm
    \/ FormatPipeline

\* The pipeline of TestFormatTopoSort, and the same five calls declared in
\* every other order.
TestCall(decId, id, bindings) ==
    [Id |-> id, DecId |-> decId, Modifiers |-> NoModifiers, Bindings |-> bindings]

TestCalls ==
    {TestCall("STAGE_3", "STAGE_3",
              <<BindStm("in1", SelfRef("input")),
                BindStm("in2", CallRef("STAGE_2", "output"))>>),
     TestCall("STAGE", "STAGE_1", <<BindStm("input", SelfRef("input"))>>),
     TestCall("STAGE", "STAGE_2", <<BindStm("input", SelfRef("input"))>>),
     TestCall("STAGE", "STAGE_4", <<BindStm("input", CallRef("STAGE_2", "output"))>>),
     TestCall("STAGE_3", "STAGE_5",
              <<BindStm("in1", SelfRef("input")),
                BindStm("in2", CallRef("STAGE_2", "output"))>>)}

TestOrder == <<"STAGE_3", "STAGE_1", "STAGE_2", "STAGE_4", "STAGE_5">>

TopoTestInit ==
    /\ ppc = "parsed"
    /\ \E order \in {f \in [1..5 -> TestCalls] : \A i, j \in 1..5 : i # j => f[i] # f[j]} :
          /\ pipeline = [NoPipeline EXCEPT
                !.Id = "PIPELINE",
                !.InParams = <<Param("in", "int", 0, "input", "", "")>>,
                !.OutParams = <<Param("out", "int", 0, "output1", "", ""),
                                Param("out", "int", 0, "output2", "", "")>>,
                !.Calls = order,
                !.Ret = <<BindStm("output1", CallRef("STAGE_3", "output")),
                          BindStm("output2", CallRef("STAGE_5", "output"))>>]
          /\ declared = [i \in 1..5 |-> order[i].Id]
    /\ ptext = <<>>

\* ---------------------------------------------------------------- printer
NilFile == ""
NilLoc == [File |-> NilFile, Line |-> 0]
AstNode(path, line, scopeComments, comments) ==
    [File |-> path, Line |-> line, scopeComments |-> scopeComments,
     Comments |-> comments]
CommentBlock(path, line, value) == [File |-> path, Line |-> line, Value |-> value]

\* comment.Value and a newline, for each comment of a list
RECURSIVE CommentLines(_)
CommentLines(list) ==
    IF list = <<>> THEN <<>>
    ELSE <<Skip(Head(list).Value), Skip(NEWLINE)>> \o CommentLines(Tail(list))

\* The loop of printComments over node.scopeComments: what it writes, given
\* the line of the last comment location.
RECURSIVE ScopeLines(_, _, _)
ScopeLines(list, lastLine, prefix) ==
    IF list = <<>> THEN <<>>
    ELSE LET c == Head(list)
         IN  (IF lastLine # 0 /\ lastLine = c.Line - 2 THEN <<Skip(NEWLINE)>> ELSE <<>>)
             \o <<Skip(prefix), Skip(c.Value), Skip(NEWLINE)>>
             \o ScopeLines(Tail(list), c.Line, prefix)

\* The node's own comments with an empty line after each: the mistake that
\* would part a comment from its node.
RECURSIVE NodeCommentLinesSpaced(_, _)
NodeCommentLinesSpaced(list, prefix) ==
    IF list = <<>> THEN <<>>
    ELSE <<Skip(prefix), Skip(Head(list)), Skip(NEWLINE), Skip(NEWLINE)>>
         \o NodeCommentLinesSpaced(Tail(list), prefix)

RECURSIVE NodeCommentLines(_, _)
NodeCommentLines(list, prefix) ==
    IF list = <<>> THEN <<>>
    ELSE <<Skip(prefix), Skip(Head(list)), Skip(NEWLINE)>>
         \o NodeCommentLines(Tail(list), prefix)

\* self.comments[path]: nil for a key the map does not hold
CommentsOf(p, path) ==
    IF path \in DOMAIN p.comments THEN p.comments[path] ELSE <<>>

\* The test of printComments for a node of another file than the one of
\* the last comment location.
FileChanged(last, node) == last.File # NilFile /\ last.File # node.File

\* The pool kept when the comments of a file have been flushed, with no
\* delete: the mistake the flush must not make.
PoolAfterFlushKept(comments, path) == comments

\* delete(self.comments, path)
PoolAfterFlush(comments, path) ==
    [f \in DOMAIN comments \ {path} |-> comments[f]]

\* The marker of a file boundary
Banner(node) == <<Skip("#\n# @include \""), Skip(node.File), Skip("\"\n#\n\n")>>

\* The printer's fields a call of printComments can read or change
PrinterFields(p) ==
    [lastComment |-> p.lastComment, comments |-> p.comments, written |-> Len(p.buf)]

\* printComments on the fields buf, comments and lastComment
PrintedComments(p, node, prefix) ==
    LET last == p.lastComment
        moved == FileChanged(last, node)
    IN  [buf |-> p.buf
                 \o (IF moved
                     THEN CommentLines(CommentsOf(p, last.File)) \o Banner(node)
                     ELSE <<>>)
                 \o ScopeLines(node.scopeComments, last.Line, prefix)
                 \o (IF Len(node.scopeComments) > 0 THEN <<Skip(NEWLINE)>> ELSE <<>>)
                 \o NodeCommentLines(node.Comments, prefix),
         comments |-> IF moved THEN PoolAfterFlush(p.comments, last.File)
                      ELSE p.comments,
         lastComment |-> [File |-> node.File, Line |-> node.Line]]

\* The printer q after a call of printComments on the printer p, with the
\* call added to calls: the history of the calls on this printer, each the
\* node and the printer's fields before and after.
Logged(p, node, q) ==
    [buf |-> q.buf, comments |-> q.comments, lastComment |-> q.lastComment,
     calls |-> Append(p.calls, [node |-> node, before |-> PrinterFields(p),
                                after |-> PrinterFields(q)])]

printComments(p, node, prefix) == Logged(p, node, PrintedComments(p, node, prefix))

WriteString(p, text) == [p EXCEPT !.buf = @ \o text]

\* DumpComments that empties the pool and writes nothing: the mistake that
\* would lose the comments left at the end.
DumpCommentsDropped(p, order) == [p EXCEPT !.comments = <<>>]

\* DumpComments, the map being ranged over in the order given.
RECURSIVE DumpComments(_, _)
DumpComments(p, order) ==
    IF order = <<>> THEN [p EXCEPT !.comments = <<>>]
    ELSE DumpComments(WriteString(p, CommentLines(p.comments[Head(order)])),
                      Tail(order))

\* The orders in which a range over a map with these keys can visit them.
RangeOrders(keys) ==
    {o \in [1..Cardinality(keys) -> keys] :
        \A i, j \in 1..Cardinality(keys) : i # j => o[i] # o[j]}

\* -------------------------------------------------------------------- Ast
TopFile == "top.mro"
IncFileNames == <<"a.mro", "b.mro", "c.mro", "d.mro">>
IncFiles == {IncFileNames[i] : i \in 1..MaxIncludes}

\* SourceFile.IncludedFrom: the files whose include directives name a path
IncludedFrom(f) == IF f = TopFile THEN <<>> ELSE <<TopFile>>

RECURSIVE TopOf(_)
TopOf(f) == IF Len(IncludedFrom(f)) > 0 THEN TopOf(IncludedFrom(f)[1]) ELSE f

NilCallNode == [nil |-> TRUE, Node |-> AstNode(NilFile, 0, <<>>, <<>>), Stm |-> NoCall]
NoAst ==
    [Files |-> {}, Includes |-> <<>>, UserTypes |-> <<>>, Callables |-> <<>>,
     Call |-> NilCallNode, comments |-> <<>>]

\* printer.comments as Ast.format fills it: the pool grouped by path
RECURSIVE PoolOf(_, _)
PoolOf(pool, path) ==
    IF pool = <<>> THEN <<>>
    ELSE (IF Head(pool).File = path THEN <<Head(pool)>> ELSE <<>>)
         \o PoolOf(Tail(pool), path)

PrinterComments(pool) ==
    [f \in {pool[i].File : i \in 1..Len(pool)} |-> PoolOf(pool, f)]

IncludeFormat(p, directive) ==
    WriteString(printComments(p, directive.Node, ""),
                <<Tok("INCLUDE_DIRECTIVE", "@include"), Skip(" "),
                  Quoted(directive.Value), Skip(NEWLINE)>>)

UserTypeFormat(p, filetype) ==
    WriteString(printComments(p, filetype.Node, ""),
                <<Tok("FILETYPE", "filetype"), Skip(" "), Tok("ID", filetype.Id),
                  Tok("SEMICOLON", ";"), Skip(NEWLINE)>>)

\* Stage.format with the printer: the parameters and the src line are nodes
\* of the stage's file on the lines that follow it, without comments.
StageDecFormat(p, dec) ==
    LET q == WriteString(printComments(p, dec.Node, ""), StageFormat(dec.Stage))
    IN  [q EXCEPT !.lastComment.Line =
            dec.Node.Line + Len(dec.Stage.InParams) + Len(dec.Stage.OutParams) + 1]

\* CallStm.format with the printer; the bindings are nodes of the call's
\* file on the lines that follow it.
CallNodeFormat(p, call) ==
    LET q == WriteString(printComments(p, call.Node, ""), CallStmFormat(call.Stm, ""))
    IN  [q EXCEPT !.lastComment.Line = call.Node.Line + Len(call.Stm.Bindings)]

RECURSIVE IncludesFormat(_, _)
IncludesFormat(p, list) ==
    IF list = <<>> THEN p
    ELSE IncludesFormat(IncludeFormat(p, Head(list)), Tail(list))

RECURSIVE UserTypesFormat(_, _)
UserTypesFormat(p, list) ==
    IF list = <<>> THEN p
    ELSE UserTypesFormat(UserTypeFormat(p, Head(list)), Tail(list))

RECURSIVE CallablesFormat(_, _, _)
CallablesFormat(p, list, i) ==
    IF i > Len(list) THEN p
    ELSE CallablesFormat(
             StageDecFormat(IF i # 1 THEN WriteString(p, <<Skip(NEWLINE)>>) ELSE p,
                            list[i]),
             list, i + 1)

\* The conditions of Ast.format for the blank line before a section
UserTypesSpacer(needSpacer, a) == needSpacer /\ Len(a.UserTypes) > 0

\* The spacer before the callables never written: the mistake the blank
\* line after the filetype block must not make.
CallablesSpacerSkipped(needSpacer, a) == FALSE

CallablesSpacer(needSpacer, a) == needSpacer /\ Len(a.Callables) > 0
CallSpacer(needSpacer, a) == Len(a.Callables) > 0 \/ needSpacer

\* The printer after the NEWLINE a section is set apart with, if it is due
Spaced(p, due) == IF due THEN WriteString(p, <<Skip(NEWLINE)>>) ELSE p

\* The top-level call of Ast.format, if there is one
CallFormat(p, a, needSpacer) ==
    IF ~a.Call.nil THEN CallNodeFormat(Spaced(p, CallSpacer(needSpacer, a)), a.Call)
    ELSE p

\* Ast.format(true) up to the call of DumpComments; first is the file the
\* range over self.Files yields first.
AstPrinted(a, first) ==
    LET p0 == [buf |-> <<>>,
               comments |-> PrinterComments(a.comments),
               lastComment |-> IF a.Files # {}
                               THEN [File |-> TopOf(first), Line |-> 0]
                               ELSE NilLoc,
               calls |-> <<>>]
        p1 == IncludesFormat(p0, a.Includes)
        spacer1 == Len(a.Includes) > 0
        p2 == UserTypesFormat(Spaced(p1, UserTypesSpacer(spacer1, a)), a.UserTypes)
        spacer2 == spacer1 \/ Len(a.UserTypes) > 0
        p3 == CallablesFormat(Spaced(p2, CallablesSpacer(spacer2, a)), a.Callables, 1)
    IN  CallFormat(p3, a, spacer2)

\* ------------------------------ grammar: a unit of a top file and includes
\* The identifiers a file declares: unique across the unit.
FileTypeOf(f) ==
    CASE f = "a.mro" -> "txt" [] f = "b.mro" -> "csv" [] f = "c.mro" -> "bam"
      [] OTHER -> "bed"
StageOf(f) ==
    CASE f = "a.mro" -> "SUM_A" [] f = "b.mro" -> "SUM_B" [] f = "c.mro" -> "SUM_C"
      [] OTHER -> "SUM_D"

IncStage(f) ==
    [NoStage EXCEPT !.Id = StageOf(f),
                    !.InParams = <<Param("in", "int", 0, "x", "", "")>>,
                    !.Src = SrcParam("py", "stages/add_key")]

Included(a) == {a.Includes[i].Value : i \in 1..Len(a.Includes)}

\* How the comments before a declaration lie in the source.  scope: no
\* comment block set apart from the declaration ("none"), one between two
\* blank lines ("blank"), or one that starts on the line after the previous
\* code line and is followed by a blank line ("code").  own: a comment on
\* the line before the declaration.
Layout(scope, own) == [scope |-> scope, own |-> own]

\* The node of a declaration with this layout, the previous code line of its
\* file being line cursor: the block set apart becomes its scope comments,
\* the adjacent comment its Comments.
LaidOut(path, cursor, layout, scopeText, ownText) ==
    LET scopeLine == IF layout.scope = "code" THEN cursor + 1 ELSE cursor + 2
        next == CASE layout.scope = "none" -> cursor + 2
                  [] layout.scope = "code" -> cursor + 3
                  [] OTHER -> cursor + 4
    IN  AstNode(path, IF layout.own THEN next + 1 ELSE next,
                IF layout.scope # "none"
                THEN <<CommentBlock(path, scopeLine, scopeText)>> ELSE <<>>,
                IF layout.own THEN <<ownText>> ELSE <<>>)

TopStageIds == <<"ADD_KEY1", "ADD_KEY2">>
TopStage(i) ==
    [NoStage EXCEPT !.Id = TopStageIds[i],
                    !.InParams = <<Param("in", "string", 0, "key", "", "")>>,
                    !.Src = SrcParam("py", "stages/add_key")]

\* The line of the closing parenthesis of a stage declaration
StageEnd(dec) ==
    dec.Node.Line + Len(dec.Stage.InParams) + Len(dec.Stage.OutParams) + 2

\* dec_list of the top file: its stages, one per layout, after line cursor
RECURSIVE TopCallables(_, _, _)
TopCallables(layouts, i, cursor) ==
    IF i > Len(layouts) THEN <<>>
    ELSE LET dec == [Node |-> LaidOut(TopFile, cursor, layouts[i],
                                      "# Notes on " \o TopStageIds[i] \o ".",
                                      "# Adds a key: " \o TopStageIds[i] \o "."),
                     Stage |-> TopStage(i)]
         IN  <<dec>> \o TopCallables(layouts, i + 1, StageEnd(dec))

\* The stage declarations of the top file, by the layouts of their comments
StageLayouts ==
    {<<>>,
     <<Layout("none", TRUE)>>,
     <<Layout("blank", FALSE)>>,
     <<Layout("none", FALSE), Layout("blank", TRUE)>>,
     <<Layout("none", TRUE), Layout("code", FALSE)>>}

\* The top file after its includes: a filetype or none, stages, a call or
\* none; the grammar wants one of them.
TopBodies ==
    {b \in [filetype : BOOLEAN, stages : StageLayouts, call : BOOLEAN] :
        b.filetype \/ b.stages # <<>> \/ b.call}

AstInit ==
    /\ apc = "includes"
    /\ ast = [NoAst EXCEPT !.Files = {TopFile}]
    /\ texts = <<>>
    /\ printLog = <<>>

AstIdle ==
    /\ apc = "idle"
    /\ ast = NoAst
    /\ texts = <<>>
    /\ printLog = <<>>

\* What an included file holds: a declaration or none, and a comment after
\* its last node or none.
IncludedBodies ==
    {[dec |-> "none", trailing |-> TRUE],
     [dec |-> "filetype", trailing |-> FALSE],
     [dec |-> "stage", trailing |-> FALSE],
     [dec |-> "stage", trailing |-> TRUE]}

\* includes : includes INCLUDE_DIRECTIVE LITSTRING, and the declarations and
\* the pooled comments of the file named, merged into the unit.  The file
\* starts with a comment block, a blank line and a declaration, or holds no
\* declaration, and may end with a comment.
includes ==
    /\ apc = "includes"
    /\ Len(ast.Includes) < MaxIncludes
    /\ \E f \in IncFiles \ Included(ast), inc \in IncludedBodies :
          /\ inc.trailing => Len(ast.comments) < MaxPooled
          /\ LET node == AstNode(f, 3, <<CommentBlock(f, 1, "# declared in " \o f)>>, <<>>)
                 dec == inc.dec
                 trailing == inc.trailing
             IN  ast' = [ast EXCEPT
                   !.Files = @ \cup {f},
                   !.Includes = Append(@,
                       [Node |-> AstNode(TopFile, Len(ast.Includes) + 1, <<>>, <<>>),
                        Value |-> f]),
                   !.UserTypes = IF dec = "filetype"
                                 THEN Append(@, [Node |-> node, Id |-> FileTypeOf(f)])
                                 ELSE @,
                   !.Callables = IF dec = "stage"
                                 THEN Append(@, [Node |-> node, Stage |-> IncStage(f)])
                                 ELSE @,
                   !.comments = IF trailing
                                THEN Append(@, CommentBlock(f, 9, "# end of " \o f))
                                ELSE @]
    /\ UNCHANGED <<apc, texts, printLog>>
    /\ UNCHANGED notAst

\* file : includes dec_list | includes dec_list call_stm | includes call_stm
\*      | dec_list | dec_list call_stm | call_stm, for the top file, and the
\* comments after its last node.
file ==
    /\ apc = "includes"
    /\ \E body \in TopBodies, trailing \in BOOLEAN :
          /\ trailing => Len(ast.comments) < MaxPooled
          /\ LET l == Len(ast.Includes)
                 filetype == [Node |-> LaidOut(TopFile, l, Layout("none", FALSE), "", ""),
                              Id |-> "json"]
                 c1 == IF body.filetype THEN filetype.Node.Line ELSE l
                 stages == TopCallables(body.stages, 1, c1)
                 c2 == IF stages = <<>> THEN c1 ELSE StageEnd(stages[Len(stages)])
                 call == [nil |-> FALSE,
                          Node |-> LaidOut(TopFile, c2, Layout("none", TRUE), "", "# run"),
                          Stm |-> [NoCall EXCEPT !.Id = "SUM_A", !.DecId = "SUM_A",
                                      !.Bindings = <<BindStm("x", BoolExp(TRUE))>>]]
                 c3 == IF body.call THEN call.Node.Line + 2 ELSE c2
             IN  ast' = [ast EXCEPT
                       !.UserTypes = IF body.filetype THEN Append(@, filetype) ELSE @,
                       !.Callables = @ \o stages,
                       !.Call = IF body.call THEN call ELSE @,
                       !.comments = IF trailing
                                    THEN Append(@, CommentBlock(TopFile, c3 + 2,
                                                                "# end of top.mro"))
                                    ELSE @]
    /\ apc' = "parsed"
    /\ UNCHANGED <<texts, printLog>>
    /\ UNCHANGED notAst

\* One run of Ast.format(true) on the unit.  The two ranges over maps, over
\* self.Files and in DumpComments over printer.comments, visit the keys in
\* an order the run picks.  printLog keeps the run's calls of printComments.
AstFormat ==
    /\ apc = "parsed"
    /\ Len(texts) < 2
    /\ \E first \in ast.Files :
          LET p == AstPrinted(ast, first)
          IN  /\ \E order \in RangeOrders(DOMAIN p.comments) :
                     texts' = Append(texts, DumpComments(p, order).buf)
              /\ printLog' = p.calls
    /\ UNCHANGED <<apc, ast>>
    /\ UNCHANGED notAst

AstNext ==
    \/ includes
    \/ file
    \/ AstFormat

\* ------------------------ grammar: a call with one binding, x = <value>
RECURSIVE Zeros(_)
Zeros(n) == IF n <= 0 THEN <<>> ELSE <<0>> \o Zeros(n - 1)

\* NUM_FLOAT literals digits.digits, as the digits before and after the point
FloatLit(int, frac) == [int |-> int, frac |-> frac]
NoLit == FloatLit(<<>>, <<>>)

IntParts ==
    {<<0>>} \cup {<<1>> \o Zeros(m) : m \in 0..MaxIntZeros}

FracParts ==
    {Zeros(k) \o core \o Zeros(m) :
        k \in 0..MaxFracZeros, core \in {<<>>, <<5>>, <<0, 5>>}, m \in 0..2} \ {<<>>}

FloatLits ==
    {lit \in {FloatLit(i, f) : i \in IntParts, f \in FracParts} :
        Len(ParseFloat(lit).d) <= 15}

\* The expressions an exp_list or a kvpair_list is built from
ElemExps ==
    {IntExp(1), StringExp("a"), NullExp,
     ArrayExp(<<IntExp(1)>>), ArrayExp(<<IntExp(1), IntExp(2)>>),
     MapExp([k \in {"a", "b"} |-> IntExp(3)], <<"b", "a">>)}

PairKeys == {"a", "ab", "b"}
PairExps == {IntExp(1), StringExp("x"), ArrayExp(<<IntExp(1), IntExp(2)>>)}

\* kvpair_list's map[string]Exp: a later pair replaces an earlier one with
\* the same key
BuildMap(pairs) ==
    [k \in {pairs[i].key : i \in 1..Len(pairs)} |->
        pairs[CHOOSE i \in 1..Len(pairs) :
                 /\ pairs[i].key = k
                 /\ \A j \in (i + 1)..Len(pairs) : pairs[j].key # k].exp]

NoBind == BindStm("", NullExp)

ValInit ==
    /\ vpc = "exp"
    /\ vexps = <<>>
    /\ vpairs = <<>>
    /\ vlit = NoLit
    /\ vbind = NoBind
    /\ vtext = <<>>

ValIdle ==
    /\ vpc = "idle"
    /\ vexps = <<>>
    /\ vpairs = <<>>
    /\ vlit = NoLit
    /\ vbind = NoBind
    /\ vtext = <<>>

\* exp_list : exp_list COMMA exp | exp
exp_list ==
    /\ vpc = "exp"
    /\ vpairs = <<>>
    /\ Len(vexps) < MaxElems
    /\ \E e \in ElemExps : vexps' = Append(vexps, e)
    /\ UNCHANGED <<vpc, vpairs, vlit, vbind, vtext>>
    /\ UNCHANGED notVal

\* kvpair_list : kvpair_list COMMA LITSTRING COLON exp | LITSTRING COLON exp
kvpair_list ==
    /\ vpc = "exp"
    /\ vexps = <<>>
    /\ Len(vpairs) < MaxPairs
    /\ \E k \in PairKeys, e \in PairExps :
          vpairs' = Append(vpairs, [key |-> k, exp |-> e])
    /\ UNCHANGED <<vpc, vexps, vlit, vbind, vtext>>
    /\ UNCHANGED notVal

\* val_exp : LBRACKET exp_list RBRACKET | LBRACKET exp_list COMMA RBRACKET
\*         | LBRACKET RBRACKET, in bind_stm : id EQUALS exp COMMA
val_exp_array ==
    /\ vpc = "exp"
    /\ vpairs = <<>>
    /\ vbind' = BindStm("x", ArrayExp(vexps))
    /\ vpc' = "parsed"
    /\ UNCHANGED <<vexps, vpairs, vlit, vtext>>
    /\ UNCHANGED notVal

\* bind_stm : id EQUALS SWEEP LPAREN exp_list [COMMA] RPAREN COMMA
bind_stm_sweep ==
    /\ vpc = "exp"
    /\ vpairs = <<>>
    /\ Len(vexps) >= 1
    /\ vbind' = SweepStm("x", vexps)
    /\ vpc' = "parsed"
    /\ UNCHANGED <<vexps, vpairs, vlit, vtext>>
    /\ UNCHANGED notVal

\* val_exp : LBRACE RBRACE | LBRACE kvpair_list RBRACE
\*         | LBRACE kvpair_list COMMA RBRACE
val_exp_map ==
    /\ vpc = "exp"
    /\ vexps = <<>>
    /\ IF vpairs = <<>>
       THEN vbind' = BindStm("x", EmptyMapExp)
       ELSE \E range \in RangeOrders(DOMAIN BuildMap(vpairs)) :
               vbind' = BindStm("x", MapExp(BuildMap(vpairs), range))
    /\ vpc' = "parsed"
    /\ UNCHANGED <<vexps, vpairs, vlit, vtext>>
    /\ UNCHANGED notVal

\* val_exp : NUM_FLOAT
val_exp_float ==
    /\ vpc = "exp"
    /\ vexps = <<>> /\ vpairs = <<>>
    /\ \E lit \in FloatLits :
          /\ vlit' = lit
          /\ vbind' = BindStm("x", FloatExp(ParseFloat(lit)))
    /\ vpc' = "parsed"
    /\ UNCHANGED <<vexps, vpairs, vtext>>
    /\ UNCHANGED notVal

\* val_exp : NUM_INT | LITSTRING | bool_exp | NULL, and exp : ref_exp
val_exp ==
    /\ vpc = "exp"
    /\ vexps = <<>> /\ vpairs = <<>>
    /\ \E e \in {IntExp(0), IntExp(10), IntExp(1000000), NullExp, BoolExp(TRUE),
                 BoolExp(FALSE), SelfRef("key1"), CallRef("ADD_KEY1", "sum")}
                \cup {StringExp(Unquote(Quoted(v))) : v \in StringLits} :
          vbind' = BindStm("x", e)
    /\ vpc' = "parsed"
    /\ UNCHANGED <<vexps, vpairs, vlit, vtext>>
    /\ UNCHANGED notVal

ValCall(b) == [NoCall EXCEPT !.Id = "F", !.DecId = "F", !.Bindings = <<b>>]

\* CallStm.format on the call
FormatValue ==
    /\ vpc = "parsed"
    /\ vtext' = CallStmFormat(ValCall(vbind), "")
    /\ vpc' = "formatted"
    /\ UNCHANGED <<vexps, vpairs, vlit, vbind>>
    /\ UNCHANGED notVal

ValNext ==
    \/ exp_list
    \/ kvpair_list
    \/ val_exp_array
    \/ bind_stm_sweep
    \/ val_exp_map
    \/ val_exp_float
    \/ val_exp
    \/ FormatValue

\* ------------------- a ValExp built directly, as TestFormatValueExpression
\* builds it, and ValExp.format on it
TestStrings == {"blah", "\"blah\"", "", "a b", "say \"hi\" now", "back\\slash", "it's"}

TestFloats ==
    {Float(d, dp) : d \in {<<1>>, <<5>>, <<1, 0, 0, 5>>},
                    dp \in (0 - MaxFracZeros)..(MaxIntZeros + 1)}
        \cup {Float(<<>>, 0)}

TestValExps ==
    {StringExp(s) : s \in TestStrings}
        \cup {FloatExp(f) : f \in TestFloats}
        \cup {IntExp(0), IntExp(10), IntExp(1000000), NullExp}

ValExpInit ==
    /\ vpc = "parsed"
    /\ vexps = <<>>
    /\ vpairs = <<>>
    /\ vlit = NoLit
    /\ \E e \in TestValExps : vbind = BindStm("", e)
    /\ vtext = <<>>

\* ve.format(&buff, "")
FormatValExp ==
    /\ vpc = "parsed"
    /\ vtext' = ValExpFormat(vbind.Exp, "")
    /\ vpc' = "formatted"
    /\ UNCHANGED <<vexps, vpairs, vlit, vbind>>
    /\ UNCHANGED notVal

\* --------------------------------------------------------- specifications
\* ------------------------------------------------- grammar: the file rule
GrammarIdle ==
    /\ gpc = "idle"
    /\ gtoks = <<>>
    /\ gsyms = <<>>
    /\ gseen = <<>>

\* A file as the parser of the file rule sees it: its include directives,
\* declarations and calls, one token each for a whole construct.
MaxItems == 3
DecItems == {"FILETYPE", "STAGE", "PIPELINE"}
FileItems == {"INCLUDE_DIRECTIVE", "CALL"} \cup DecItems

RECURSIVE ItemSeqs(_)
ItemSeqs(n) ==
    IF n = 0 THEN {<<>>}
    ELSE ItemSeqs(n - 1)
         \cup {Append(s, x) : s \in {t \in ItemSeqs(n - 1) : Len(t) = n - 1},
                              x \in FileItems}

FileInit ==
    /\ gpc = "file"
    /\ gtoks \in ItemSeqs(MaxItems)
    /\ gsyms = <<>>
    /\ gseen = <<>>

Shift(phase) ==
    /\ gpc' = phase
    /\ gtoks' = Tail(gtoks)
    /\ gseen' = Append(gseen, Head(gtoks))
    /\ UNCHANGED gsyms
    /\ UNCHANGED notGrammar

\* includes : includes INCLUDE_DIRECTIVE LITSTRING | INCLUDE_DIRECTIVE LITSTRING
includesRule ==
    /\ gpc \in {"file", "includes"}
    /\ gtoks # <<>> /\ Head(gtoks) = "INCLUDE_DIRECTIVE"
    /\ Shift("includes")

\* dec_list : dec_list dec | dec
dec_list ==
    /\ gpc \in {"file", "includes", "dec_list"}
    /\ gtoks # <<>> /\ Head(gtoks) \in DecItems
    /\ Shift("dec_list")

\* the call_stm that ends a file: includes dec_list call_stm |
\* includes call_stm | dec_list call_stm | call_stm
fileCall ==
    /\ gpc \in {"file", "includes", "dec_list"}
    /\ gtoks # <<>> /\ Head(gtoks) = "CALL"
    /\ Shift("call_stm")

\* The end of the input completes one of the six alternatives of file.
fileAccepts ==
    /\ gpc \in {"dec_list", "call_stm"}
    /\ gtoks = <<>>
    /\ gpc' = "accepted"
    /\ UNCHANGED <<gtoks, gsyms, gseen>>
    /\ UNCHANGED notGrammar

\* No alternative of file continues with the next token, or ends here.
fileSyntaxError ==
    /\ \/ gpc = "call_stm" /\ gtoks # <<>>
       \/ gpc = "dec_list" /\ gtoks # <<>> /\ Head(gtoks) = "INCLUDE_DIRECTIVE"
       \/ gpc \in {"file", "includes"} /\ gtoks = <<>>
    /\ gpc' = "error"
    /\ UNCHANGED <<gtoks, gsyms, gseen>>
    /\ UNCHANGED notGrammar

FileNext ==
    \/ includesRule
    \/ dec_list
    \/ fileCall
    \/ fileAccepts
    \/ fileSyntaxError

\* ----------------------------------------------- grammar: the id rule
\* The token the lexer gives for a word (the words of the phrases below).
WordToken(w) ==
    CASE w = "local" -> "LOCAL"
      [] w = "preflight" -> "PREFLIGHT"
      [] w = "volatile" -> "VOLATILE"
      [] w = "disabled" -> "DISABLED"
      [] w = "strict" -> "STRICT"
      [] w = "retain" -> "RETAIN"
      [] w = "split" -> "SPLIT"
      [] w = "using" -> "USING"
      [] w = "threads" -> "THREADS"
      [] w = "mem_gb" -> "MEM_GB"
      [] w = "special" -> "SPECIAL"
      [] w = "filetype" -> "FILETYPE"
      [] w = "exec" -> "EXEC"
      [] w = "comp" -> "COMPILED"
      [] w = "stage" -> "STAGE"
      [] w = "pipeline" -> "PIPELINE"
      [] w = "call" -> "CALL"
      [] w = "return" -> "RETURN"
      [] w = "self" -> "SELF"
      [] w = "as" -> "AS"
      [] w = "in" -> "IN"
      [] w = "out" -> "OUT"
      [] w = "src" -> "SRC"
      [] w = "py" -> "PY"
      [] w = "int" -> "INT"
      [] w = "true" -> "TRUE"
      [] w = "(" -> "LPAREN"
      [] w = ")" -> "RPAREN"
      [] w = "{" -> "LBRACE"
      [] w = "}" -> "RBRACE"
      [] w = "," -> "COMMA"
      [] w = ";" -> "SEMICOLON"
      [] w = "." -> "DOT"
      [] w = "=" -> "EQUALS"
      [] w = "\"h\"" -> "LITSTRING"
      [] OTHER -> "ID"

\* id : ID | COMPILED | DISABLED | ... | VOLATILE, with the rule cut down to
\* the token ID first
IdTokensPlain == {"ID"}

IdTokens ==
    {"ID", "COMPILED", "DISABLED", "EXEC", "FILETYPE", "LOCAL", "MEM_GB",
     "PREFLIGHT", "RETAIN", "SPECIAL", "SPLIT", "STRICT", "THREADS", "USING",
     "VOLATILE"}

\* type : INT | STRING | PATH | FLOAT | BOOL | MAP | id_list
TypeTokens == {"INT", "STRING", "PATH", "FLOAT", "BOOL", "MAP"} \cup IdTokens

\* modifiers : | modifiers LOCAL | modifiers PREFLIGHT | modifiers VOLATILE
ModifierTokens == {"LOCAL", "PREFLIGHT", "VOLATILE"}

\* A phrase of the grammar for every place where a production has id: the
\* symbols of the production (terminals by their token, and id, type,
\* modifiers), the words of a phrase it derives, and the place of the
\* identifier under test.
Phrase(syms, words, slot) == [syms |-> syms, words |-> words, slot |-> slot]

IdPhrases ==
    {Phrase(<<"FILETYPE", "id", "SEMICOLON">>, <<"filetype", "json", ";">>, 2),
     Phrase(<<"FILETYPE", "id", "DOT", "id", "SEMICOLON">>,
            <<"filetype", "tar", ".", "gz", ";">>, 4),
     Phrase(<<"STAGE", "id", "LPAREN", "SRC", "PY", "LITSTRING", "COMMA", "RPAREN">>,
            <<"stage", "SUM", "(", "src", "py", "\"h\"", ",", ")">>, 2),
     Phrase(<<"STAGE", "id", "LPAREN", "SRC", "PY", "LITSTRING", "COMMA", "RPAREN",
              "RETAIN", "LPAREN", "id", "COMMA", "RPAREN">>,
            <<"stage", "SUM", "(", "src", "py", "\"h\"", ",", ")",
              "retain", "(", "x", ",", ")">>, 11),
     Phrase(<<"PIPELINE", "id", "LPAREN", "RPAREN", "LBRACE", "CALL", "modifiers", "id",
              "LPAREN", "RPAREN", "RETURN", "LPAREN", "RPAREN", "RBRACE">>,
            <<"pipeline", "P", "(", ")", "{", "call", "SUM", "(", ")",
              "return", "(", ")", "}">>, 2),
     Phrase(<<"IN", "type", "id", "COMMA">>, <<"in", "json", "x", ",">>, 2),
     Phrase(<<"IN", "type", "id", "COMMA">>, <<"in", "int", "x", ",">>, 3),
     Phrase(<<"OUT", "type", "id", "LITSTRING", "COMMA">>,
            <<"out", "int", "x", "\"h\"", ",">>, 3),
     Phrase(<<"CALL", "modifiers", "id", "LPAREN", "RPAREN">>,
            <<"call", "SUM", "(", ")">>, 2),
     Phrase(<<"CALL", "modifiers", "id", "LPAREN", "RPAREN">>,
            <<"call", "local", "volatile", "SUM", "(", ")">>, 4),
     Phrase(<<"CALL", "modifiers", "id", "AS", "id", "LPAREN", "RPAREN">>,
            <<"call", "SUM", "as", "S", "(", ")">>, 4),
     Phrase(<<"CALL", "modifiers", "id", "AS", "id", "LPAREN", "RPAREN">>,
            <<"call", "SUM", "as", "S", "(", ")">>, 2),
     Phrase(<<"id", "EQUALS", "TRUE", "COMMA">>, <<"x", "=", "true", ",">>, 1),
     Phrase(<<"id", "EQUALS", "id", "COMMA">>, <<"x", "=", "y", ",">>, 3),
     Phrase(<<"id", "EQUALS", "id", "DOT", "id", "COMMA">>,
            <<"x", "=", "SUM", ".", "y", ",">>, 3),
     Phrase(<<"id", "EQUALS", "id", "DOT", "id", "COMMA">>,
            <<"x", "=", "SUM", ".", "y", ",">>, 5),
     Phrase(<<"id", "EQUALS", "SELF", "DOT", "id", "COMMA">>,
            <<"x", "=", "self", ".", "y", ",">>, 5)}

\* The fourteen keywords of the id rule as the source text spells them, a
\* plain identifier, and keywords the rule does not list.
KeywordIds ==
    {"local", "preflight", "volatile", "disabled", "strict", "retain", "split",
     "using", "threads", "mem_gb", "special", "filetype", "exec", "comp"}
OtherKeywords == {"stage", "pipeline", "call", "return", "src", "as"}
TestWords == KeywordIds \cup {"sum"} \cup OtherKeywords

Lexeme(word, slot) == [tok |-> WordToken(word), s |-> word, slot |-> slot]

IdentInit ==
    /\ gpc = "parse"
    /\ \E phrase \in IdPhrases, w \in TestWords :
          /\ gsyms = phrase.syms
          /\ gtoks = [k \in 1..Len(phrase.words) |->
                        IF k = phrase.slot THEN Lexeme(w, TRUE)
                        ELSE Lexeme(phrase.words[k], FALSE)]
    /\ gseen = <<>>

Consume ==
    /\ gtoks' = Tail(gtoks)
    /\ gseen' = Append(gseen, Head(gtoks))
    /\ UNCHANGED gpc
    /\ UNCHANGED notGrammar

Parsing == gpc = "parse" /\ gsyms # <<>> /\ gtoks # <<>>

\* a terminal of the production is the next token
shift ==
    /\ Parsing
    /\ Head(gsyms) = Head(gtoks).tok
    /\ gsyms' = Tail(gsyms)
    /\ Consume

\* id : ID | COMPILED | ... | VOLATILE
idRule ==
    /\ Parsing
    /\ Head(gsyms) = "id" /\ Head(gtoks).tok \in IdTokens
    /\ gsyms' = Tail(gsyms)
    /\ Consume

\* type : INT | ... | MAP | id_list
typeRule ==
    /\ Parsing
    /\ Head(gsyms) = "type" /\ Head(gtoks).tok \in TypeTokens
    /\ gsyms' = Tail(gsyms)
    /\ Consume

\* Whether the token after CALL modifiers is one more modifier.  LOCAL,
\* PREFLIGHT and VOLATILE are both a modifier and an id; the parser reduces
\* such a token to id when the token after it is LPAREN or AS (what follows
\* id in call_stm) and to modifiers before anything else.
IsModifier(toks) ==
    /\ Head(toks).tok \in ModifierTokens
    /\ Len(toks) >= 2 => toks[2].tok \notin {"LPAREN", "AS"}

\* modifiers : modifiers LOCAL | modifiers PREFLIGHT | modifiers VOLATILE
modifiersRule ==
    /\ Parsing
    /\ Head(gsyms) = "modifiers" /\ IsModifier(gtoks)
    /\ UNCHANGED gsyms
    /\ Consume

\* modifiers is complete
modifiersEnd ==
    /\ Parsing
    /\ Head(gsyms) = "modifiers" /\ ~IsModifier(gtoks)
    /\ gsyms' = Tail(gsyms)
    /\ UNCHANGED <<gpc, gtoks, gseen>>
    /\ UNCHANGED notGrammar

Expected(sym, toks) ==
    CASE sym = "id" -> Head(toks).tok \in IdTokens
      [] sym = "type" -> Head(toks).tok \in TypeTokens
      [] sym = "modifiers" -> TRUE
      [] OTHER -> sym = Head(toks).tok

\* the phrase is complete
phraseAccepts ==
    /\ gpc = "parse" /\ gsyms = <<>> /\ gtoks = <<>>
    /\ gpc' = "accepted"
    /\ UNCHANGED <<gtoks, gsyms, gseen>>
    /\ UNCHANGED notGrammar

\* the next token is none the production can go on with
phraseSyntaxError ==
    /\ gpc = "parse"
    /\ \/ gsyms = <<>> /\ gtoks # <<>>
       \/ gsyms # <<>> /\ gtoks = <<>>
       \/ Parsing /\ ~Expected(Head(gsyms), gtoks)
    /\ gpc' = "error"
    /\ UNCHANGED <<gtoks, gsyms, gseen>>
    /\ UNCHANGED notGrammar

IdentNext ==
    \/ shift
    \/ idRule
    \/ typeRule
    \/ modifiersRule
    \/ modifiersEnd
    \/ phraseAccepts
    \/ phraseSyntaxError

InitCall == CallInit /\ StageIdle /\ PipeIdle /\ AstIdle /\ ResIdle /\ ValIdle /\ GrammarIdle
SpecCall == InitCall /\ [][CallNext]_vars

InitStage == StageInit /\ CallIdle /\ PipeIdle /\ AstIdle /\ ResIdle /\ ValIdle /\ GrammarIdle
SpecStage == InitStage /\ [][StageNext]_vars

InitColumns == ColumnsInit /\ CallIdle /\ PipeIdle /\ AstIdle /\ ResIdle /\ ValIdle /\ GrammarIdle
SpecColumns == InitColumns /\ [][ColumnsNext]_vars

InitFile == FileInit /\ CallIdle /\ StageIdle /\ PipeIdle /\ AstIdle /\ ResIdle /\ ValIdle
SpecFile == InitFile /\ [][FileNext]_vars

InitIdent == IdentInit /\ CallIdle /\ StageIdle /\ PipeIdle /\ AstIdle /\ ResIdle /\ ValIdle
SpecIdent == InitIdent /\ [][IdentNext]_vars

InitPipeline == PipeInit /\ CallIdle /\ StageIdle /\ AstIdle /\ ResIdle /\ ValIdle /\ GrammarIdle
SpecPipeline == InitPipeline /\ [][PipeNext]_vars

InitTopoTest == TopoTestInit /\ CallIdle /\ StageIdle /\ AstIdle /\ ResIdle /\ ValIdle /\ GrammarIdle
SpecTopoTest == InitTopoTest /\ [][FormatPipeline]_vars

InitAst == AstInit /\ CallIdle /\ StageIdle /\ PipeIdle /\ ResIdle /\ ValIdle /\ GrammarIdle
SpecAst == InitAst /\ [][AstNext]_vars

InitResources == ResInit /\ CallIdle /\ StageIdle /\ PipeIdle /\ AstIdle /\ ValIdle /\ GrammarIdle
SpecResources == InitResources /\ [][ResNext]_vars

InitValue == ValInit /\ CallIdle /\ StageIdle /\ PipeIdle /\ AstIdle /\ ResIdle /\ GrammarIdle
SpecValue == InitValue /\ [][ValNext]_vars

InitValExp == ValExpInit /\ CallIdle /\ StageIdle /\ PipeIdle /\ AstIdle /\ ResIdle /\ GrammarIdle
SpecValExp == InitValExp /\ [][FormatValExp]_vars

\* ------------------------------------------- the emitted using block, read
\* back from the token stream of the returned text
RECURSIVE IndexOfTok(_, _, _)
IndexOfTok(t, kind, i) ==
    IF i > Len(t) THEN 0
    ELSE IF t[i].tok = kind THEN i ELSE IndexOfTok(t, kind, i + 1)

RECURSIVE ValText(_, _)
ValText(t, j) ==
    IF j > Len(t) \/ t[j].tok = "COMMA" THEN "" ELSE t[j].s \o ValText(t, j + 1)

RECURSIVE EntriesFrom(_, _)
EntriesFrom(t, i) ==
    IF i >= Len(t) THEN <<>>
    ELSE IF t[i + 1].tok = "EQUALS"
         THEN <<[Id |-> t[i].s, Val |-> ValText(t, i + 2)]>> \o EntriesFrom(t, i + 1)
         ELSE EntriesFrom(t, i + 1)

\* The <id> = <value> entries after the text's `using` keyword, in order.
UsingEntries(text) ==
    LET t == Lex(text)
        u == IndexOfTok(t, "USING", 1)
    IN  IF u = 0 THEN <<>> ELSE EntriesFrom(t, u + 1)

ValsOf(id, entries) ==
    LET Test(e) == e.Id = id
        sel == SelectSeq(entries, Test)
    IN  [i \in 1..Len(sel) |-> sel[i].Val]
BoundVals(id, list) ==
    LET Test(b) == b.Id = id
        sel == SelectSeq(list, Test)
    IN  [i \in 1..Len(sel) |-> Render(ExpFormat(sel[i].Exp, INDENT))]
CountOf(v, seq) == Cardinality({i \in 1..Len(seq) : seq[i] = v})

BareFlag(m, id) ==
    CASE id = "local" -> m.Local
      [] id = "preflight" -> m.Preflight
      [] id = "volatile" -> m.Volatile

Formatted == cpc = "returned" /\ ret.err # "mmli"
FormatStep == cpc = "call" /\ cpc' = "returned"

\* C5 (as claimed): formatting leaves the AST unchanged; here, the call
\* statement's Modifiers record (flags, bound-form list, its nil-ness) is the
\* same after CallStm.format as before.
C5_AstUnchanged == [][FormatStep => callStm' = callStm]_vars

\* C8 (as claimed): FormatSrcBytes returns exactly one of text or error: a
\* non-nil error comes with empty text, a nil error with the formatting of
\* the parsed AST.
C8_TextOrError ==
    cpc = "returned" =>
        /\ ret.err # "nil" => Render(ret.text) = ""
        /\ ret.err = "nil" => ret.text = CallStmFormat(callStm, "")

\* C9 (as claimed): the emitted using block has each of local, preflight,
\* volatile at most once; a bare-only modifier is emitted as `= true`, a
\* bound one with its bound expression.
C9_AtMostOnce ==
    [][FormatStep =>
        \A id \in {"local", "preflight", "volatile"} :
            LET out == ValsOf(id, UsingEntries(ret'.text))
                bound == BoundVals(id, callStm.Modifiers.Bindings.List)
            IN  /\ Len(out) <= 1
                /\ (bound = <<>> /\ BareFlag(callStm.Modifiers, id)) => out = <<"true">>
                /\ bound # <<>> => out = <<bound[1]>>]_vars

\* C9 (amended): the emitted using block has, for each of local, preflight,
\* volatile, exactly the entries the bound form of the source has for it,
\* each with its bound expression; only when the bound form has none and the
\* bare keyword is given, one `= true` entry; otherwise none.  The formatter
\* adds no entry for a modifier that is already bound.
C9_BoundWins ==
    [][FormatStep =>
        \A id \in {"local", "preflight", "volatile"} :
            LET out == ValsOf(id, UsingEntries(ret'.text))
                bound == BoundVals(id, callStm.Modifiers.Bindings.List)
            IN  IF bound # <<>>
                THEN /\ Len(out) = Len(bound)
                     /\ \A v \in {"true", "false"} : CountOf(v, out) = CountOf(v, bound)
                ELSE IF BareFlag(callStm.Modifiers, id)
                     THEN out = <<"true">>
                     ELSE out = <<>>]_vars

\* A call given `local` both bare and bound to false: the one emitted entry
\* is the bound one.
C9_Witness ==
    /\ Formatted
    /\ callStm.Modifiers.Local
    /\ ValsOf("local", UsingEntries(ret.text)) = <<"false">>

\* C10: the identifiers of the emitted using block's entries are in
\* ascending alphabetical order.
C10_UsingSorted ==
    Formatted =>
        LET e == UsingEntries(ret.text)
        IN  \A i, j \in 1..Len(e) : i < j => ~StrLess(e[j].Id, e[i].Id)

\* A block of disabled, local, volatile where local came from the bare
\* keyword, which the formatter appends after the bound entries.
C10_Witness ==
    /\ Formatted
    /\ callStm.Modifiers.Local
    /\ LET e == UsingEntries(ret.text)
       IN  /\ Len(e) = 3
           /\ e[1].Id = "disabled" /\ e[2].Id = "local" /\ e[3].Id = "volatile"
           /\ e[2].Val = "true" /\ e[3].Val = "false"

\* C1 (as claimed): formatting is idempotent: the text produced by the
\* formatter parses and formats back to exactly itself.
C1_Idempotent == spc = "reformatted" => Render(out2) = Render(out1)

\* C6 (as claimed): formatting never fails on a parsed stage: no column
\* padding count is negative, so no rendering step aborts.
C6_NeverFails == spc # "panic"


\* ------------------------------------------------- reading a pipeline's text
\* The ids of the calls of a text, in the order written: the id after AS
\* when the call is aliased, the callable's id otherwise.
RECURSIVE CallIdsFrom(_, _)
CallIdsFrom(t, i) ==
    IF i > Len(t) THEN <<>>
    ELSE IF t[i].tok = "CALL"
         THEN LET j == CHOOSE k \in (i + 1)..Len(t) :
                          /\ t[k].tok = "ID"
                          /\ \A l \in (i + 1)..(k - 1) : t[l].tok # "ID"
              IN  IF j + 1 <= Len(t) /\ t[j + 1].tok = "AS"
                  THEN <<t[j + 2].s>> \o CallIdsFrom(t, j + 3)
                  ELSE <<t[j].s>> \o CallIdsFrom(t, j + 1)
         ELSE CallIdsFrom(t, i + 1)

EmittedCalls(text) == CallIdsFrom(Lex(text), 1)

PipelineFormatted == ppc = "formatted"

Before(seq, x, y) == IndexIn(seq, x) < IndexIn(seq, y)

DependsOn(x, y) == y \in TransDeps(pipeline.Calls, x, Len(pipeline.Calls))

Unrelated(x, y) == x # y /\ ~DependsOn(x, y) /\ ~DependsOn(y, x)

\* C2 In the text that formatting emits for a pipeline, call A is written
\* before call B whenever one of B's argument bindings is a call-output
\* reference whose call id is A.
C2_DepsFirst ==
    PipelineFormatted =>
        LET e == EmittedCalls(ptext)
        IN  /\ Len(e) = Len(declared)
            /\ Ids(pipeline.Calls) = {e[i] : i \in 1..Len(e)}
            /\ \A a, b \in Ids(pipeline.Calls) :
                  a \in CallDeps(CallById(pipeline.Calls, b))
                      => Before(e, a, b)

\* C2 is exercised: a call declared before the call it refers to was formatted.
C2_Witness ==
    /\ PipelineFormatted
    /\ \E a, b \in Ids(pipeline.Calls) :
          /\ a \in CallDeps(CallById(pipeline.Calls, b))
          /\ Before(declared, b, a)

\* C3 The calls of the test pipeline, in whatever order they are declared
\* with the dependencies STAGE_3, STAGE_4, STAGE_5 -> STAGE_2, are emitted so
\* that STAGE_2 precedes its three dependents; declared in the test's order
\* STAGE_3, STAGE_1, STAGE_2, STAGE_4, STAGE_5 they are emitted as
\* STAGE_1, STAGE_2, STAGE_3, STAGE_4, STAGE_5.
C3_TestOrder ==
    PipelineFormatted =>
        LET e == EmittedCalls(ptext)
        IN  /\ \A d \in {"STAGE_3", "STAGE_4", "STAGE_5"} : Before(e, "STAGE_2", d)
            /\ declared = TestOrder
                  => e = <<"STAGE_1", "STAGE_2", "STAGE_3", "STAGE_4", "STAGE_5">>

\* C3 is exercised: the test's own declaration order was formatted.
C3_Witness == PipelineFormatted /\ declared = TestOrder

\* C4 (as stated) Two calls neither of which depends on the other, directly
\* or through a chain, are emitted in the order in which they are declared.
C4_SourceOrderKept ==
    PipelineFormatted =>
        LET e == EmittedCalls(ptext)
        IN  \A x, y \in Ids(pipeline.Calls) :
                (Unrelated(x, y) /\ Before(declared, x, y)) => Before(e, x, y)

\* C4 (amended) A call X declared before a call Y is emitted before Y when
\* every call X depends on, directly or through a chain, is declared before
\* Y and is not Y.
C4_SourceOrderKeptWhenDepsEarlier ==
    PipelineFormatted =>
        LET e == EmittedCalls(ptext)
        IN  \A x, y \in Ids(pipeline.Calls) :
                (/\ x # y
                 /\ Before(declared, x, y)
                 /\ \A d \in TransDeps(pipeline.Calls, x, Len(pipeline.Calls)) :
                       d # y /\ Before(declared, d, y))
                    => Before(e, x, y)

\* C4 is exercised: the sort moved a call, and an unrelated pair whose
\* earlier call has dependencies, all declared before the later call, was
\* emitted.
C4_Witness ==
    /\ PipelineFormatted
    /\ EmittedCalls(ptext) # declared
    /\ \E x, y \in Ids(pipeline.Calls) :
          /\ Unrelated(x, y)
          /\ Before(declared, x, y)
          /\ TransDeps(pipeline.Calls, x, Len(pipeline.Calls)) # {}
          /\ \A d \in TransDeps(pipeline.Calls, x, Len(pipeline.Calls)) :
                Before(declared, d, y)


HasUsing(text) == \E i \in 1..Len(text) : text[i].tok = "USING"

BareFlagSet(m) == m.Local \/ m.Preflight \/ m.Volatile

\* C11 The text of a call has a `) using (` block if and only if, in the call
\* as parsed, a bare modifier flag is set or the bound-form list is non-empty;
\* otherwise, also for a call parsed from an empty `using ()`, the text ends
\* with a plain `)` and a newline.
C11_UsingIffModifiers ==
    [][FormatStep =>
        LET m == callStm.Modifiers
            t == Lex(ret'.text)
        IN  /\ HasUsing(ret'.text) <=> (BareFlagSet(m) \/ Len(m.Bindings.List) > 0)
            /\ t[Len(t)].tok = "RPAREN"
            /\ ~HasUsing(ret'.text) =>
                  Cardinality({i \in 1..Len(t) : t[i].tok = "RPAREN"}) = 1]_vars

\* C11 is exercised: a call parsed from an empty `using ()` was formatted and
\* its text has no using block.
C11_Witness ==
    /\ Formatted
    /\ ~callStm.Modifiers.Bindings.nil
    /\ callStm.Modifiers.Bindings.List = <<>>
    /\ ~HasUsing(ret.text)

\* ------------------------------------------- reading a resource block's text
\* The resource fields of a text, in the order written.
RECURSIVE FieldsFrom(_, _)
FieldsFrom(t, i) ==
    IF i > Len(t) THEN <<>>
    ELSE (IF t[i].tok \in {"MEM_GB", "SPECIAL", "THREADS", "VOLATILE"}
          THEN <<t[i].s>> ELSE <<>>) \o FieldsFrom(t, i + 1)

EmittedFields(text) == FieldsFrom(Lex(text), 1)

MarkerSet(field) ==
    \/ field = "mem_gb" /\ resStage.Resources.MemNode
    \/ field = "special" /\ resStage.Resources.SpecialNode
    \/ field = "threads" /\ resStage.Resources.ThreadNode
    \/ field = "volatile" /\ resStage.Resources.VolatileNode

MarkedFields == SelectSeq(ResourceFields, MarkerSet)

ResourcesFormatted == rpc = "formatted" /\ ~resStage.Resources.nil

\* C12 The resource block's fields are written in the order mem_gb, special,
\* threads, volatile whatever their order in the source, and a field is
\* written if and only if its location marker is set, whatever its value:
\* an explicit zero is written, a field the source lacks is not.
C12_ResourceFields ==
    ResourcesFormatted =>
        /\ EmittedFields(rtext) = MarkedFields
        /\ \A f \in {"mem_gb", "special", "threads", "volatile"} :
              (\E i \in 1..Len(rsrc) : rsrc[i] = f)
                  <=> (\E i \in 1..Len(EmittedFields(rtext)) : EmittedFields(rtext)[i] = f)

\* C12 is exercised: threads = 0 written ahead of mem_gb in the source, some
\* field absent, and the block was formatted with threads in it.
C12_Witness ==
    /\ ResourcesFormatted
    /\ resStage.Resources.ThreadNode /\ resStage.Resources.Threads = 0
    /\ Len(rsrc) >= 2 /\ rsrc[1] = "threads" /\ rsrc[2] = "mem_gb"
    /\ ~resStage.Resources.VolatileNode
    /\ EmittedFields(rtext) = <<"mem_gb", "threads">>

\* ------------------------------------------------- reading a binding's text
ValueFormatted == vpc = "formatted"

\* The text of the call around the value of its one binding
BindingText(value) == "call F(\n    x = " \o value \o ",\n)\n"

\* One alternative or element per line, at two indents, each with a comma
RECURSIVE LinesOf(_)
LinesOf(values) ==
    IF values = <<>> THEN ""
    ELSE INDENT \o INDENT \o Render(ExpFormat(Head(values), INDENT \o INDENT))
         \o ",\n" \o LinesOf(Tail(values))

\* C13 A binding flagged as a sweep is written as `sweep(`, one alternative
\* per line with a trailing comma, and `)` at the binding's indent exactly
\* when it has more than one alternative; with exactly one alternative it is
\* written as the inline array `[v]`, without the sweep keyword.
C13_SweepBlock ==
    (ValueFormatted /\ vbind.Sweep) =>
        /\ HasUsing(vtext) = FALSE
        /\ (\E i \in 1..Len(vtext) : vtext[i].tok = "SWEEP") <=> Len(vbind.Exp.Values) > 1
        /\ Len(vbind.Exp.Values) > 1 =>
              Render(vtext) =
                  BindingText("sweep(\n" \o LinesOf(vbind.Exp.Values) \o INDENT \o ")")
        /\ Len(vbind.Exp.Values) = 1 =>
              Render(vtext) =
                  BindingText("[" \o Render(ExpFormat(vbind.Exp.Values[1], INDENT)) \o "]")

\* C13 is exercised: a sweep with exactly one alternative was formatted
\* without the keyword.
C13_Witness ==
    /\ ValueFormatted
    /\ vbind.Sweep
    /\ Len(vbind.Exp.Values) = 1
    /\ \A i \in 1..Len(vtext) : vtext[i].tok # "SWEEP"
    /\ \E i \in 1..Len(vtext) : vtext[i].tok = "LBRACKET"

\* The positions in a text of the keys of its outermost map: the string
\* literals followed by a colon, one brace deep and in no bracket.
RECURSIVE KeysFrom(_, _, _)
KeysFrom(text, i, depth) ==
    IF i > Len(text) THEN <<>>
    ELSE LET tok == text[i].tok
             d == IF tok \in {"LBRACE", "LBRACKET"} THEN depth + 1
                  ELSE IF tok \in {"RBRACE", "RBRACKET"} THEN depth - 1
                  ELSE depth
         IN  (IF tok = "LITSTRING" /\ depth = 1 /\ i < Len(text)
                    /\ text[i + 1].tok = "COLON"
              THEN <<i>> ELSE <<>>)
             \o KeysFrom(text, i + 1, d)

KeyPositions(text) == KeysFrom(text, 1, 0)

SourceKeys == {vpairs[i].key : i \in 1..Len(vpairs)}

MapFormatted == ValueFormatted /\ vbind.Exp.type = "ValExp" /\ vbind.Exp.Kind = KindMap

\* C14 A non-empty map literal is written with one `"key": value,` entry per
\* line, the keys in ascending byte order and each key of the source once,
\* whatever the order of the keys in the source and in the map; an empty
\* map, as the grammar builds it for `{}`, is written as `{}`.
C14_MapSorted ==
    MapFormatted =>
        LET pos == KeyPositions(vtext)
            key(n) == vtext[pos[n]].s
        IN  /\ vpairs = <<>> => Render(vtext) = BindingText("{}")
            /\ vpairs # <<>> =>
                  /\ {key(n) : n \in 1..Len(pos)} = {"\"" \o k \o "\"" : k \in SourceKeys}
                  /\ \A n \in 1..(Len(pos) - 1) :
                        \E a, b \in SourceKeys :
                            /\ key(n) = "\"" \o a \o "\""
                            /\ key(n + 1) = "\"" \o b \o "\""
                            /\ KeyRank(a) < KeyRank(b)
                  /\ \A n \in 1..Len(pos) :
                        /\ vtext[pos[n] - 1] = Skip(INDENT \o INDENT)
                        /\ vtext[pos[n] - 2] = Skip(NEWLINE)
                        /\ vtext[pos[n] + 2] = Skip(" ")
                  /\ vtext[Len(vtext) - 5] = Tok("RBRACE", "}")
                  /\ vtext[Len(vtext) - 6] = Skip(INDENT)

\* C14 is exercised: a map whose keys came in descending order in the
\* source, one of them twice, and were visited in an unsorted order, was
\* formatted.
C14_Witness ==
    /\ MapFormatted
    /\ Len(vpairs) >= 2
    /\ KeyRank(vpairs[2].key) < KeyRank(vpairs[1].key)
    /\ Len(vbind.Exp.Range) >= 2
    /\ KeyRank(vbind.Exp.Range[2]) < KeyRank(vbind.Exp.Range[1])
    /\ Len(KeyPositions(vtext)) = 2

\* --------------------------------------------------- reading a number's text
PosOf(chars, c) ==
    IF \E i \in 1..Len(chars) : chars[i] = c
    THEN CHOOSE i \in 1..Len(chars) : chars[i] = c /\ \A j \in 1..(i - 1) : chars[j] # c
    ELSE 0

DigitOf(c) == CHOOSE n \in 0..9 : Digit(n) = c

RECURSIVE NumberOf(_)
NumberOf(chars) ==
    IF chars = <<>> THEN 0
    ELSE 10 * NumberOf(SubSeq(chars, 1, Len(chars) - 1)) + DigitOf(chars[Len(chars)])

Mantissa(chars) ==
    IF PosOf(chars, "e") = 0 THEN chars ELSE SubSeq(chars, 1, PosOf(chars, "e") - 1)

\* The float64 a number's text is read as: mantissa digits, point, exponent
ReadFloat(chars) ==
    LET e == PosOf(chars, "e")
        m == Mantissa(chars)
        p == PosOf(m, ".")
        int == IF p = 0 THEN m ELSE SubSeq(m, 1, p - 1)
        frac == IF p = 0 THEN <<>> ELSE SubSeq(m, p + 1, Len(m))
        v == ParseFloat(FloatLit([i \in 1..Len(int) |-> DigitOf(int[i])],
                                 [i \in 1..Len(frac) |-> DigitOf(frac[i])]))
        n == IF e = 0 THEN 0 ELSE NumberOf(SubSeq(chars, e + 2, Len(chars)))
        x == IF e # 0 /\ chars[e + 1] = "-" THEN 0 - n ELSE n
    IN  IF v.d = <<>> THEN v ELSE Float(v.d, v.dp + x)

FloatFormatted == ValueFormatted /\ vlit # NoLit

FloatChars == FormatG(vbind.Exp.Float)

\* What holds of every float's text: it is the binding's value, it reads back
\* as the float the literal was read as, its fraction has no trailing zero
\* and no lone point, and the literals of the test give the test's texts.
FloatTextCanonical ==
    LET c == FloatChars
        m == Mantissa(c)
    IN  /\ Render(vtext) = BindingText(Concat(c))
        /\ ReadFloat(c) = ParseFloat(vlit)
        /\ PosOf(m, ".") # 0 => m[Len(m)] \notin {"0", "."}
        /\ vlit = FloatLit(<<1, 0>>, <<0>>) => Concat(c) = "10"
        /\ vlit = FloatLit(<<1, 0>>, <<0, 5>>) => Concat(c) = "10.05"
        /\ vlit = FloatLit(<<1, 0>>, <<0, 5, 0>>) => Concat(c) = "10.05"
        /\ vlit = FloatLit(<<0>>, Zeros(9) \o <<5>>) => Concat(c) = "5e-10"
        /\ vlit = FloatLit(<<0>>, <<0, 0, 0, 5>>) => Concat(c) = "0.0005"

\* The decimal exponent of the float a literal is read as
DecimalExponent == ParseFloat(vlit).dp - 1

\* C15 (as stated) A float's text is the shortest decimal that reads back as
\* the same value, in fixed-point notation unless the decimal exponent is
\* below -4 (then scientific), without trailing fractional zeros or a lone
\* `.0`.
C15_FixedUnlessSmall ==
    FloatFormatted =>
        /\ FloatTextCanonical
        /\ PosOf(FloatChars, "e") # 0 <=> DecimalExponent < -4

\* C15 (amended) As stated, but the text is scientific also when the decimal
\* exponent is 6 or more: 1000000.0 is written 1e+06.
C15_FixedUnlessSmallOrLarge ==
    FloatFormatted =>
        /\ FloatTextCanonical
        /\ PosOf(FloatChars, "e") # 0 <=> (DecimalExponent < -4 \/ DecimalExponent >= 6)

\* C15 is exercised: the literal 1000000.0 was formatted, as 1e+06.
C15_Witness ==
    /\ FloatFormatted
    /\ vlit = FloatLit(<<1, 0, 0, 0, 0, 0, 0>>, <<0>>)
    /\ Render(vtext) = BindingText("1e+06")

StringFormatted ==
    ValueFormatted /\ vbind.Exp.type = "ValExp" /\ vbind.Exp.Kind = KindString

\* C16 A string value is written as the value between one pair of double
\* quotes, every character of the value as it is: nothing is escaped, so a
\* value holding double quotes has them inside the wrapping quotes.
C16_StringVerbatim ==
    StringFormatted =>
        /\ Render(vtext) = "\"" \o vbind.Exp.Str \o "\""
        /\ Len(Render(vtext)) = Len(vbind.Exp.Str) + 2

\* C16 is exercised: the value "blah" with its own double quotes was
\* formatted, as the test does.
C16_Witness ==
    /\ StringFormatted
    /\ vbind.Exp.Str = "\"blah\""
    /\ Render(vtext) = "\"\"blah\"\""


\* ----------------------------------------- the text of a unit, read back
Formatted2 == apc = "parsed" /\ Len(texts) > 0

\* The tokens that follow the tokens of one kind, in the order of the text
RECURSIVE NamesAfter(_, _, _)
NamesAfter(L, kind, i) ==
    IF i >= Len(L) THEN <<>>
    ELSE (IF L[i].tok = kind THEN <<L[i + 1].s>> ELSE <<>>)
         \o NamesAfter(L, kind, i + 1)

\* The section a token opens, or 0
SectionOf(x) ==
    CASE x.tok = "INCLUDE_DIRECTIVE" -> 1
      [] x.tok = "FILETYPE" -> 2
      [] x.tok = "STAGE" -> 3
      [] x.tok = "CALL" -> 4
      [] OTHER -> 0

OpensSection(x) == SectionOf(x) > 0
SectionHeads(text) == SelectSeq(text, OpensSection)

\* The lexemes of a text that are neither empty nor a line end
NonBlank(x) == x.s # "" /\ x.s # NEWLINE
LastToken(text, k) ==
    CHOOSE e \in 0..(k - 1) :
        /\ e > 0 => IsToken(text[e])
        /\ \A i \in (e + 1)..(k - 1) : ~IsToken(text[i])

\* The comments a run leaves in the pool for DumpComments
RECURSIVE ValuesOf(_)
ValuesOf(blocks) ==
    IF blocks = <<>> THEN <<>> ELSE <<Head(blocks).Value>> \o ValuesOf(Tail(blocks))

LeftInPool ==
    IF printLog = <<>> THEN PrinterComments(ast.comments)
    ELSE printLog[Len(printLog)].after.comments

SectionsInOrder(text) ==
    LET L == Lex(text)
        heads == SectionHeads(text)
        end == LastToken(text, Len(text) + 1)
        tail == SelectSeq(SubSeq(text, end + 1, Len(text)), NonBlank)
    IN  /\ \A i, j \in 1..Len(heads) :
               i < j => /\ SectionOf(heads[i]) <= SectionOf(heads[j])
                        /\ SectionOf(heads[i]) < 4
        /\ NamesAfter(L, "INCLUDE_DIRECTIVE", 1)
              = [i \in 1..Len(ast.Includes) |-> Quoted(ast.Includes[i].Value).s]
        /\ NamesAfter(L, "FILETYPE", 1)
              = [i \in 1..Len(ast.UserTypes) |-> ast.UserTypes[i].Id]
        /\ NamesAfter(L, "STAGE", 1)
              = [i \in 1..Len(ast.Callables) |-> ast.Callables[i].Stage.Id]
        /\ Len(NamesAfter(L, "CALL", 1)) = (IF ast.Call.nil THEN 0 ELSE 1)
        /\ Len(tail) = Len(SelectSeq(ast.comments,
                               LAMBDA c : c.File \in DOMAIN LeftInPool))
        /\ \A f \in DOMAIN LeftInPool :
               \A i \in 1..Len(LeftInPool[f]) :
                   \E j \in 1..Len(tail) : tail[j].s = LeftInPool[f][i].Value

\* Exactly one empty line follows the end of each callable but the last
OneBlankLineBetweenCallables(text) ==
    \A k \in 1..Len(text) :
        (text[k].tok = "STAGE" /\ \E i \in 1..(k - 1) : text[i].tok = "STAGE")
        => LET e == LastToken(text, k)
           IN  /\ text[e + 1].s = NEWLINE
               /\ text[e + 2].s = NEWLINE
               /\ text[e + 3].s # NEWLINE

\* C17 The sections come in a fixed order: the @include directives in their
\* original order, the filetype declarations, the callables in their
\* declared order with exactly one blank line between consecutive
\* callables, the top-level call last among the nodes, and then the
\* comments still in the pool.
C17_SectionOrder ==
    \A r \in 1..Len(texts) :
        SectionsInOrder(texts[r]) /\ OneBlankLineBetweenCallables(texts[r])


\* The last filetype declaration of a text: the position of its keyword, 0
\* for none.  The declaration is the keyword, a space, the name, the
\* semicolon and the line end.
LastFileType(text) ==
    IF \E k \in 1..Len(text) : text[k].tok = "FILETYPE"
    THEN CHOOSE k \in 1..Len(text) :
             /\ text[k].tok = "FILETYPE"
             /\ \A i \in (k + 1)..Len(text) : text[i].tok # "FILETYPE"
    ELSE 0

BlankLineAfterFileTypes(text) ==
    LET k == LastFileType(text)
    IN  /\ text[k + 4].s = NEWLINE
        /\ Len(text) >= k + 5
        /\ text[k + 5].s = NEWLINE

NodeFollowsFileTypes == Len(ast.Callables) > 0 \/ ~ast.Call.nil

\* C18 (as stated) Whenever a filetype declaration is emitted, a blank line
\* follows the filetype block, also when no callable and no top-level call
\* follows it.
C18_BlankLineAfterFileTypes ==
    \A r \in 1..Len(texts) :
        LastFileType(texts[r]) # 0 => BlankLineAfterFileTypes(texts[r])

\* C18 (amended) Whenever a filetype declaration is emitted, a blank line
\* follows the filetype block exactly when a callable or a top-level call
\* follows it; with no node after it the block is followed at once by the
\* comments left in the pool or by the end of the text.
C18_BlankLineBeforeNextSection ==
    \A r \in 1..Len(texts) :
        LastFileType(texts[r]) # 0
        => (BlankLineAfterFileTypes(texts[r]) <=> NodeFollowsFileTypes)

C18_Witness ==
    /\ Formatted2
    /\ Len(ast.UserTypes) > 0
    /\ Len(ast.Callables) > 0
    /\ BlankLineAfterFileTypes(texts[1])


\* The nodes Ast.format prints comments for, each with the token that opens
\* its text and the word that follows it
UnitNodes ==
    [i \in 1..Len(ast.Includes) |->
        [node |-> ast.Includes[i].Node, tok |-> "INCLUDE_DIRECTIVE",
         name |-> Quoted(ast.Includes[i].Value).s]]
    \o [i \in 1..Len(ast.UserTypes) |->
        [node |-> ast.UserTypes[i].Node, tok |-> "FILETYPE",
         name |-> ast.UserTypes[i].Id]]
    \o [i \in 1..Len(ast.Callables) |->
        [node |-> ast.Callables[i].Node, tok |-> "STAGE",
         name |-> ast.Callables[i].Stage.Id]]
    \o (IF ast.Call.nil THEN <<>>
        ELSE <<[node |-> ast.Call.Node, tok |-> "CALL", name |-> ast.Call.Stm.DecId]>>)

\* Where the text of a node starts, 0 if it is not in the text
NodeStart(text, n) ==
    IF \E k \in 1..(Len(text) - 2) : text[k].tok = n.tok /\ text[k + 2].s = n.name
    THEN CHOOSE k \in 1..(Len(text) - 2) : text[k].tok = n.tok /\ text[k + 2].s = n.name
    ELSE 0

\* The comments attached to a node: its scope comments, then its own
AttachedComments(node) == ValuesOf(node.scopeComments) \o node.Comments

\* The position of the last lexeme before k that is neither empty nor a
\* line end, 0 for none
LastNonBlank(text, k) ==
    CHOOSE e \in 0..(k - 1) :
        /\ e > 0 => NonBlank(text[e])
        /\ \A i \in (e + 1)..(k - 1) : ~NonBlank(text[i])

LineEndsBetween(text, e, k) ==
    Cardinality({i \in (e + 1)..(k - 1) : text[i].s = NEWLINE})

CommentsBeforeNode(text, n) ==
    LET k == NodeStart(text, n)
        before == SelectSeq(SubSeq(text, 1, k - 1), NonBlank)
        want == AttachedComments(n.node)
        off == Len(before) - Len(want)
    IN  /\ k > 0
        /\ off >= 0
        /\ \A i \in 1..Len(want) :
               before[off + i] = Skip(want[i])
        /\ Len(n.node.Comments) > 0
           => LineEndsBetween(text, LastNonBlank(text, k), k) = 1

WrittenBy(c) == SubSeq(texts[1], c.before.written + 1, c.after.written)

BannerOf(path) == "#\n# @include \"" \o path \o "\"\n#\n\n"

\* The comments the pool holds for a file, [] for none
PooledFor(comments, path) ==
    IF path \in DOMAIN comments THEN comments[path] ELSE <<>>

\* The call c found its node in another file than the last comment location
ChangesFile(c) == c.before.lastComment.File # c.node.File

FlushThenBanner(c) ==
    LET w == WrittenBy(c)
        prev == c.before.lastComment.File
        pooled == PooledFor(c.before.comments, prev)
        n == 2 * Len(pooled)
        rest == SelectSeq(SubSeq(w, n + 4, Len(w)), NonBlank)
    IN  /\ Len(w) >= n + 3
        /\ \A i \in 1..Len(pooled) :
               w[2 * i - 1] = Skip(pooled[i].Value) /\ w[2 * i] = Skip(NEWLINE)
        /\ Render(SubSeq(w, n + 1, n + 3)) = BannerOf(c.node.File)
        /\ rest = [i \in 1..Len(AttachedComments(c.node)) |->
                       Skip(AttachedComments(c.node)[i])]
        /\ prev \notin DOMAIN c.after.comments
        /\ \A f \in DOMAIN c.before.comments \ {prev} :
               /\ f \in DOMAIN c.after.comments
               /\ c.after.comments[f] = c.before.comments[f]

NoBanner(c) ==
    LET w == WrittenBy(c)
    IN  /\ SelectSeq(w, NonBlank) = [i \in 1..Len(AttachedComments(c.node)) |->
                                        Skip(AttachedComments(c.node)[i])]
        /\ c.after.comments = c.before.comments

\* C20 When comments are printed for a node of another file than the file
\* of the last comment location, the printer first writes the comments
\* still pooled for that previous file and removes them from the pool, then
\* the banner `#`, `# @include "<file of the node>"`, `#` and a blank line,
\* and only then the node's comments; with the file unchanged it writes no
\* banner; afterwards the last comment location is the node's location.
C20_FlushAndBanner ==
    Formatted2 =>
        \A i \in 1..Len(printLog) :
            LET c == printLog[i]
            IN  /\ ChangesFile(c) => FlushThenBanner(c)
                /\ ~ChangesFile(c) => NoBanner(c)
                /\ c.after.lastComment = [File |-> c.node.File, Line |-> c.node.Line]

C20_Witness ==
    /\ Formatted2
    /\ \E i \in 1..Len(printLog) :
           LET c == printLog[i]
           IN  /\ ChangesFile(c)
               /\ PooledFor(c.before.comments, c.before.lastComment.File) # <<>>
               /\ AttachedComments(c.node) # <<>>
    /\ \E i \in 1..Len(printLog) : ~ChangesFile(printLog[i])

\* ------------------------------------------------------------------ C21
\* The lines of a text: the lexemes between two line ends.
FirstLineEnd(text) ==
    CHOOSE j \in 1..Len(text) :
        /\ text[j] = Skip(NEWLINE)
        /\ \A i \in 1..(j - 1) : text[i] # Skip(NEWLINE)

RECURSIVE TextLines(_)
LinesFrom(text, j) ==
    <<SubSeq(text, 1, j - 1)>> \o TextLines(SubSeq(text, j + 1, Len(text)))

TextLines(text) ==
    IF \A i \in 1..Len(text) : text[i] # Skip(NEWLINE) THEN <<>>
    ELSE LinesFrom(text, FirstLineEnd(text))

\* The column at which lexeme k of a line starts.
RECURSIVE ColumnOf(_, _)
ColumnOf(line, k) ==
    IF k <= 1 THEN 0 ELSE ColumnOf(line, k - 1) + Len(line[k - 1].s)

\* The n-th string literal of a line, and the identifier token of a
\* parameter line that has one (the token after the type and its brackets).
Literals(line) == {k \in 1..Len(line) : line[k].tok = "LITSTRING"}
NthLiteral(line, n) ==
    CHOOSE k \in Literals(line) : Cardinality({j \in Literals(line) : j < k}) = n - 1
ParamIdAt(line, param) ==
    CHOOSE k \in 1..Len(line) :
        /\ line[k] = Tok(IdTok(param.Id), param.Id)
        /\ \A j \in (k + 1)..Len(line) : line[j].tok \in {"SKIP", "LITSTRING", "COMMA"}

\* The width of the identifier column as a line with an identifier and a
\* help text shows it, and of the help column as a line with a help text
\* and an output name shows it (both without the two blanks that separate
\* columns, the help column without the two quotes).
IdColumn(line, param) ==
    ColumnOf(line, NthLiteral(line, 1)) - ColumnOf(line, ParamIdAt(line, param)) - 2
HelpColumn(line) ==
    ColumnOf(line, NthLiteral(line, 2)) - ColumnOf(line, NthLiteral(line, 1)) - 4

MaxOf(S) == IF S = {} THEN 0 ELSE CHOOSE m \in S : \A x \in S : x <= m

RenderedId(param) == IF param.Id = "default" THEN "" ELSE param.Id
ShowsIdColumn(param) == RenderedId(param) # "" /\ param.Help # ""
ShowsHelpColumn(param) == param.Help # "" /\ param.OutName # ""

\* The longest identifier rendered in a group among those shorter than 35
\* characters, and the longest help text shorter than 25 characters.
LongestRenderedId(group) ==
    MaxOf({Len(RenderedId(group[i])) : i \in {j \in 1..Len(group) : Len(group[j].Id) < 35}})
LongestHelp(group) ==
    MaxOf({Len(group[i].Help) : i \in {j \in 1..Len(group) : Len(group[j].Help) < 25}})

\* A parameter's line shows columns of the widths idWidth and helpWidth,
\* and no padding after an identifier of 35 or more characters or a help
\* text of 25 or more.
LineHasColumns(line, param, idWidth, helpWidth) ==
    /\ ShowsIdColumn(param) =>
          IdColumn(line, param) = IF Len(param.Id) < 35 THEN idWidth ELSE Len(param.Id)
    /\ ShowsHelpColumn(param) =>
          HelpColumn(line) = IF Len(param.Help) < 25 THEN helpWidth ELSE Len(param.Help)

GroupHasColumns(lines, group, first, idWidth, helpWidth) ==
    \A i \in 1..Len(group) :
        LineHasColumns(lines[first + i], group[i], idWidth, helpWidth)

PrimaryGroup(st) == st.InParams \o st.OutParams
ColumnsFormatted == spc = "formatted"

\* C21: in the parameter group of a stage without a split block, the
\* identifier column is as wide as the longest identifier rendered in the
\* group among those shorter than 35 characters (`default` renders as no
\* text) and the help column as wide as the longest help text shorter than
\* 25 characters; longer identifiers and help texts are not padded.
C21_ColumnWidths ==
    (ColumnsFormatted /\ ~stageDec.Split) =>
        GroupHasColumns(TextLines(out1), PrimaryGroup(stageDec), 1,
                        LongestRenderedId(PrimaryGroup(stageDec)),
                        LongestHelp(PrimaryGroup(stageDec)))

\* ------------------------------------------------------------------ C22
ChunkGroup(st) == st.ChunkIns \o st.ChunkOuts
PrimaryMeasure(st) == measureParamsWidths(<<st.InParams, st.OutParams>>)
ChunkMeasure(st) == measureParamsWidths(<<st.ChunkIns, st.ChunkOuts>>)
JointMeasure(st) ==
    measureParamsWidths(<<st.InParams, st.OutParams, st.ChunkIns, st.ChunkOuts>>)

\* The lines of a formatted stage: the header, the primary parameters, the
\* src line, `) split (`, the chunk parameters.
PrimaryHasColumns(st, text, w) ==
    GroupHasColumns(TextLines(text), PrimaryGroup(st), 1, w.id, w.help)
ChunksHaveColumns(st, text, w) ==
    GroupHasColumns(TextLines(text), ChunkGroup(st), Len(PrimaryGroup(st)) + 3,
                    w.id, w.help)

SplitFormatted == spc = "formatted" /\ stageDec.Split

\* C22 as stated: the primary parameter lines of a stage have the column
\* widths measured over the primary in- and out-parameters only, and when
\* the primary identifier width exceeds 30 or the primary help width
\* exceeds 20 the split block has the widths measured over the chunk
\* parameters alone.
C22_PrimaryWidthsOnly ==
    SplitFormatted =>
        /\ PrimaryHasColumns(stageDec, out1, PrimaryMeasure(stageDec))
        /\ (PrimaryMeasure(stageDec).id > 30 \/ PrimaryMeasure(stageDec).help > 20) =>
              ChunksHaveColumns(stageDec, out1, ChunkMeasure(stageDec))

\* C22: the primary parameter lines of a stage have the column widths
\* measured over the primary and the chunk parameters together; the split
\* block has the same widths, unless the joint identifier width exceeds 30
\* or the joint help width exceeds 20, and then it has the widths measured
\* over the chunk parameters alone.
C22_JointWidths ==
    SplitFormatted =>
        /\ PrimaryHasColumns(stageDec, out1, JointMeasure(stageDec))
        /\ ChunksHaveColumns(stageDec, out1,
              IF JointMeasure(stageDec).id > 30 \/ JointMeasure(stageDec).help > 20
              THEN ChunkMeasure(stageDec) ELSE JointMeasure(stageDec))

\* A formatted stage whose chunk parameters have the longest identifier,
\* and whose primary parameters show the identifier column.
C22_Witness ==
    /\ SplitFormatted
    /\ ChunkMeasure(stageDec).id > PrimaryMeasure(stageDec).id
    /\ \E i \in 1..Len(PrimaryGroup(stageDec)) : ShowsIdColumn(PrimaryGroup(stageDec)[i])

\* A formatted stage past the limit of 30, with a split block that shows
\* the identifier column.
C22_WitnessLimit ==
    /\ SplitFormatted
    /\ JointMeasure(stageDec).id > 30
    /\ stageDec.ChunkIns # <<>>

\* ------------------------------------------------------------------ C23
\* The file the parser was given, and whether it is includes, then
\* declarations, then at most one call, each part possibly empty.
GivenFile == gseen \o gtoks
ParserDone == gpc \in {"accepted", "error"}

IncludesDecsCall(items) ==
    \E i \in 0..Len(items), d \in 0..Len(items) :
        /\ i + d <= Len(items)
        /\ Len(items) - i - d <= 1
        /\ \A k \in 1..Len(items) :
              items[k] = IF k <= i THEN "INCLUDE_DIRECTIVE"
                         ELSE IF k <= i + d THEN items[k] ELSE "CALL"
        /\ \A k \in (i + 1)..(i + d) : items[k] \in DecItems

\* C23: the grammar accepts a file if and only if it is zero or more include
\* directives, then zero or more declarations, then at most one top-level
\* call, where each of the three parts may be empty.
C23_FileShape == ParserDone => (gpc = "accepted" <=> IncludesDecsCall(GivenFile))

\* ------------------------------------------------------------------ C24
\* The tokens of the phrase the parser was given, and the words at the
\* place of the identifier under test.
GivenPhrase == gseen \o gtoks
SlotWords == {GivenPhrase[k].s : k \in {j \in 1..Len(GivenPhrase) : GivenPhrase[j].slot}}

\* C24: each of the keywords local, preflight, volatile, disabled, strict,
\* retain, split, using, threads, mem_gb, special, filetype, exec and comp is
\* accepted as a plain identifier in every place where the grammar has id.
C24_KeywordsAsIds ==
    (ParserDone /\ SlotWords \cap KeywordIds # {}) => gpc = "accepted"

\* A phrase with a keyword for its identifier was parsed to its end.
C24_Witness ==
    /\ gpc = "accepted"
    /\ SlotWords \cap KeywordIds # {}
    /\ gtoks = <<>>

\* ------------------------------------------------------------------ C25
\* No call of a pipeline body depends on itself through a chain of
\* call-output references.
Acyclic(calls) == \A id \in Ids(calls) : id \notin TransDeps(calls, id, Len(calls))

\* C25: in every pipeline a successful parse produces, the call-output
\* references between the calls of the body are acyclic.
C25_ReferencesAcyclic == ppc = "parsed" => Acyclic(pipeline.Calls)

\* ------------------------------------------------------------------ C26
\* The lines of a resource block: those that hold a resource key.  A
\* line's key, and the columns where the key and the `=` start.
ResourceKeys == {"MEM_GB", "SPECIAL", "THREADS", "VOLATILE"}
KeyAt(line) == CHOOSE k \in 1..Len(line) : line[k].tok \in ResourceKeys
EqualsAt(line) == CHOOSE k \in 1..Len(line) : line[k].tok = "EQUALS"
IsResourceLine(line) ==
    /\ \E k \in 1..Len(line) : line[k].tok \in ResourceKeys
    /\ \E k \in 1..Len(line) : line[k].tok = "EQUALS"
ResourceLines(text) == SelectSeq(TextLines(text), IsResourceLine)

LongestKey(lines) == MaxOf({Len(lines[i][KeyAt(lines[i])].s) : i \in 1..Len(lines)})

\* Every `=` of the lines is one blank past the end of the longest key.
EqualsAligned(lines) ==
    \A i \in 1..Len(lines) :
        ColumnOf(lines[i], EqualsAt(lines[i]))
            = ColumnOf(lines[i], KeyAt(lines[i])) + LongestKey(lines) + 1

\* C26: whatever non-empty subset of the resource fields is present, the
\* `=` signs of all resource lines are in one column, one blank past the
\* longest key that is written, and no wider.
C26_EqualsAligned ==
    (ResourcesFormatted /\ MarkedFields # <<>>) =>
        /\ Len(ResourceLines(rtext)) = Len(MarkedFields)
        /\ EqualsAligned(ResourceLines(rtext))
        /\ \A i \in 1..Len(MarkedFields) :
              ColumnOf(ResourceLines(rtext)[i], KeyAt(ResourceLines(rtext)[i])) = Len(INDENT)

\* A block with mem_gb and threads and without volatile was formatted: the
\* column is set by threads.
C26_Witness ==
    /\ ResourcesFormatted
    /\ MarkedFields = <<"mem_gb", "threads">>
    /\ Len(ResourceLines(rtext)) = 2

\* ------------------------------------------------------------------ C27
\* How often a comment's value is written in a text.
TimesWritten(text, value) ==
    Cardinality({k \in 1..Len(text) : text[k] = Skip(value)})

\* The pooled comments a call of printComments flushed: those of the file
\* the printer left.
Flushed(c) ==
    IF FileChanged(c.before.lastComment, c.node)
    THEN PooledFor(c.before.comments, c.before.lastComment.File)
    ELSE <<>>

FlushedAtBoundary(comment) ==
    \E i \in 1..Len(printLog) :
        \E k \in 1..Len(Flushed(printLog[i])) : Flushed(printLog[i])[k] = comment

LeftForDump(comment) ==
    \E f \in DOMAIN LeftInPool :
        \E k \in 1..Len(LeftInPool[f]) : LeftInPool[f][k] = comment

\* C27: every comment in the printer's pool at the start of Ast.format is
\* written exactly once, either when the printer leaves the comment's file
\* or by the final DumpComments, never by both and never by neither.
C27_PooledWrittenOnce ==
    Formatted2 =>
        \A i \in 1..Len(ast.comments) :
            /\ \A t \in 1..Len(texts) : TimesWritten(texts[t], ast.comments[i].Value) = 1
            /\ FlushedAtBoundary(ast.comments[i]) # LeftForDump(ast.comments[i])

\* A run in which one pooled comment was flushed at a file boundary and
\* another was left for DumpComments.
C27_Witness ==
    /\ Formatted2
    /\ \E i, j \in 1..Len(ast.comments) :
          FlushedAtBoundary(ast.comments[i]) /\ LeftForDump(ast.comments[j])

\* ------------------------------------------------------------------ C28
\* A list of call ids holds the same calls as another, each once.
IsPermutation(e, ids) ==
    /\ Len(e) = Len(ids)
    /\ \A k \in 1..Len(ids) : Cardinality({i \in 1..Len(e) : e[i] = ids[k]}) = 1

\* Every call is declared after the calls it refers to.
InDependencyOrder(calls, ids) ==
    \A i \in 1..Len(ids) :
        CallDeps(CallById(calls, ids[i])) \subseteq {ids[j] : j \in 1..(i - 1)}

====
